---- MODULE Spec2Model ----
(***************************************************************************)
(* A model of auto-detect-walls: the wall merger (combineSceneWalls), the  *)
(* grid wall extractor (identifyWalls) and the image filters it rests on.  *)
(*                                                                         *)
(* Each component has its own specification (SpecMerge, SpecWalls, ...)    *)
(* over the same variables; a specification leaves the variables of the    *)
(* other components at their idle values.                                  *)
(***************************************************************************)
EXTENDS Integers, Sequences, FiniteSets, TLC

VARIABLES
    sceneWalls,   \* scene.walls: the wall documents of the scene, in insertion order
    canvas,       \* the canvas an image operation works on: [width, height, data]
    op,           \* the operation that ran last ("none" before any)
    input,        \* what that operation was given (the scene or canvas before it, its arguments)
    output,       \* what it returned or threw
    run,          \* the local variables of a call that runs step by step
    app           \* the AutoWallsApplication window: its walls, its runs, the notifications

vars == <<sceneWalls, canvas, op, input, output, run, app>>

(***************************************************************************)
(* Generic helpers                                                         *)
(***************************************************************************)
Abs(n) == IF n < 0 THEN -n ELSE n

Min2(a, b) == IF a <= b THEN a ELSE b

Max2(a, b) == IF a >= b THEN a ELSE b

SetMin(S) == CHOOSE m \in S : \A n \in S : m <= n

SetMax(S) == CHOOSE m \in S : \A n \in S : m >= n

Range(s) == {s[i] : i \in 1..Len(s)}

\* s without the elements that fail Test, order kept (Array.prototype.filter)
SelectIdx(s, Keep(_)) ==
    LET F[i \in 0..Len(s)] ==
            IF i = 0 THEN <<>>
            ELSE IF Keep(s[i]) THEN Append(F[i - 1], s[i]) ELSE F[i - 1]
    IN F[Len(s)]

\* s with x appended unless it is already there (Set.prototype.add, insertion order)
AddOnce(s, x) == IF x \in Range(s) THEN s ELSE Append(s, x)

\* Body of the value of v, with v evaluated once
With(v, Body(_)) == CHOOSE r \in {Body(x) : x \in {v}} : TRUE

NoCanvas == [width |-> 0, height |-> 0, data |-> <<>>]

NoInput == [kind |-> "none"]

NoOutput == [kind |-> "none"]

NoRun == [kind |-> "none"]

NoApp == [kind |-> "none"]

(***************************************************************************)
(* Wall merger: combineSceneWalls (wall-layer, part_005)                   *)
(*                                                                         *)
(* Coordinates are held in half units, so that a coordinate n stands for   *)
(* n/2 and Math.round has something to round.                              *)
(***************************************************************************)

\* the most walls a scene holds
MaxWalls == 2

\* the coordinates walls are drawn on, in half units: x is 0, 1/2 or 1 and y is
\* 0 or 1/2
Xs == {0, 1, 2}

Ys == {0, 1}

\* every segment c = [x1, y1, x2, y2] over the coordinate grid
Segments == {<<x1, y1, x2, y2>> : x1 \in Xs, y1 \in Ys, x2 \in Xs, y2 \in Ys}

\* the segments that walls with a special attribute are drawn on
SpecialSegments == {<<0, 0, 2, 1>>}

\* the attributes of a freshly drawn basic wall; a threshold distance is "null"
\* or a number, written as a string
DefaultThreshold == [attenuation |-> FALSE, light |-> "null", sight |-> "null", sound |-> "null"]

DefaultAttrs ==
    [door |-> "NONE", dir |-> "BOTH", light |-> "NORMAL", sight |-> "NORMAL",
     sound |-> "NORMAL", move |-> "NORMAL", threshold |-> DefaultThreshold]

\* the default attributes and every way of departing from them in one attribute
WallAttrs ==
    {DefaultAttrs,
     [DefaultAttrs EXCEPT !.door = "DOOR"],
     [DefaultAttrs EXCEPT !.dir = "LEFT"],
     [DefaultAttrs EXCEPT !.light = "LIMITED"],
     [DefaultAttrs EXCEPT !.sight = "LIMITED"],
     [DefaultAttrs EXCEPT !.sound = "LIMITED"],
     [DefaultAttrs EXCEPT !.move = "NONE"],
     [DefaultAttrs EXCEPT !.threshold = [DefaultThreshold EXCEPT !.attenuation = TRUE]],
     [DefaultAttrs EXCEPT !.threshold = [DefaultThreshold EXCEPT !.light = "10"]],
     [DefaultAttrs EXCEPT !.threshold = [DefaultThreshold EXCEPT !.sight = "10"]],
     [DefaultAttrs EXCEPT !.threshold = [DefaultThreshold EXCEPT !.sound = "10"]]}

\* what the user can draw: a basic wall on any segment, a wall with a special
\* attribute on the segments kept for them
Drawable ==
    {d \in Segments \X WallAttrs : d[2] # DefaultAttrs => d[1] \in SpecialSegments}

\* Math.round of a coordinate held in half units (halves round up)
Round(n) == (n + 1) \div 2

\* ceil(tan((b + 1/2) / 30) * 10^6) for b = 0..46: atan2(dy, dx) * 30 rounds to
\* more than b exactly when dy / dx is at least tan((b + 1/2) / 30)
TanBound ==
    <<16669, 50042, 83527, 117199, 151136, 185416, 220122, 255342, 291167, 327695,
      365029, 403283, 442581, 483056, 524856, 568145, 613106, 659944, 708889, 760205,
      814190, 871188, 931597, 995879, 1064578, 1138333, 1217909, 1304222, 1398383,
      1501756, 1616027, 1743316, 1886317, 2048515, 2234497, 2450426, 2704783, 3009570,
      3382356, 3849923, 4455222, 5271752, 6436586, 8238093, 11404238, 18456114,
      48078483>>

\* Math.round(Math.atan2(ady, adx) * 30) for ady, adx >= 0
RoundAtan2x30(ady, adx) ==
    IF adx = 0 THEN (IF ady = 0 THEN 0 ELSE 47)
    ELSE Cardinality({b \in 1..Len(TanBound) : ady * 1000000 >= adx * TanBound[b]})

\* the key without a direction: every segment in bucket 0
dir_OneBucket(c) == 0

\* the direction bucket of a segment: the absolute values fold every direction
\* into the first quarter turn
dir(c) == RoundAtan2x30(Abs(c[4] - c[2]), Abs(c[3] - c[1]))

\* the two endpoint keys of a wall: `${round(x)},${round(y)},${dir}`
keyA(c) == <<Round(c[1]), Round(c[2]), dir(c)>>

keyB(c) == <<Round(c[3]), Round(c[4]), dir(c)>>

\* the filter with the door test left out
isBasicWall_NoDoorTest(w) ==
    /\ w.dir = "BOTH"
    /\ w.light = "NORMAL"
    /\ w.sight = "NORMAL"
    /\ w.sound = "NORMAL"
    /\ w.move = "NORMAL"
    /\ ~w.threshold.attenuation
    /\ w.threshold.light = "null"
    /\ w.threshold.sight = "null"
    /\ w.threshold.sound = "null"

\* the filter of combineSceneWalls: the walls that are just basic walls
isBasicWall(w) ==
    /\ w.door = "NONE"
    /\ w.dir = "BOTH"
    /\ w.light = "NORMAL"
    /\ w.sight = "NORMAL"
    /\ w.sound = "NORMAL"
    /\ w.move = "NORMAL"
    /\ ~w.threshold.attenuation
    /\ w.threshold.light = "null"
    /\ w.threshold.sight = "null"
    /\ w.threshold.sound = "null"

basicWalls(scene) == SelectIdx(scene, isBasicWall)

\* wallIdToAB[w.id]: the two endpoint keys of every wall (walls are named by
\* their position in walls)
wallIdToAB(walls) == [i \in 1..Len(walls) |-> <<keyA(walls[i].c), keyB(walls[i].c)>>]

\* the keys of wallMap in insertion order (the order of Object.entries)
wallMapKeys(ab) ==
    LET F[i \in 0..Len(ab)] ==
            IF i = 0 THEN <<>>
            ELSE AddOnce(AddOnce(F[i - 1], ab[i][1]), ab[i][2])
    IN F[Len(ab)]

\* wallMap with every wall entered under its first key only
wallMap_FirstKeyOnly(ab) ==
    [k \in Range(wallMapKeys(ab)) |->
        SelectIdx([i \in 1..Len(ab) |-> i], LAMBDA i : ab[i][1] = k)]

\* wallMap: for every key the walls that have it as an endpoint key, in
\* insertion order
wallMap(ab) ==
    [k \in Range(wallMapKeys(ab)) |->
        SelectIdx([i \in 1..Len(ab) |-> i], LAMBDA i : ab[i][1] = k \/ ab[i][2] = k)]

\* visit(w, set) with the set and visitedK it works on passed through st;
\* visitEach is the forEach over wallMap[k]
RECURSIVE visit(_, _, _, _)
RECURSIVE visitEach(_, _, _, _)
visit(map, ab, i, st) ==
    With([st EXCEPT !.set = @ \cup {i}], LAMBDA st0 :
    With(IF ab[i][1] \in st0.visitedK THEN st0
         ELSE visitEach(map, ab, map[ab[i][1]],
                        [st0 EXCEPT !.visitedK = @ \cup {ab[i][1]}]), LAMBDA st1 :
         IF ab[i][2] \in st1.visitedK THEN st1
         ELSE visitEach(map, ab, map[ab[i][2]],
                        [st1 EXCEPT !.visitedK = @ \cup {ab[i][2]}])))

visitEach(map, ab, ws, st) ==
    IF ws = <<>> THEN st
    ELSE With(visit(map, ab, Head(ws), st), LAMBDA st1 : visitEach(map, ab, Tail(ws), st1))

\* the loop over Object.entries(wallMap): one set of connected walls per key
\* that was not visited before
wallSetsOf(map, ab, keys) ==
    LET F[n \in 0..Len(keys)] ==
            IF n = 0 THEN [sets |-> <<>>, visitedK |-> {}]
            ELSE With(F[n - 1], LAMBDA prev :
                 IF keys[n] \in prev.visitedK THEN prev
                 ELSE With(visitEach(map, ab, map[keys[n]],
                                     [set |-> {}, visitedK |-> prev.visitedK]), LAMBDA st :
                      [sets |-> Append(prev.sets, st.set), visitedK |-> st.visitedK]))
    IN F[Len(keys)].sets

\* wallSets of the walls given: wallMap and wallIdToAB are built once
wallSets(walls) ==
    With(wallIdToAB(walls), LAMBDA ab :
    With(wallMap(ab), LAMBDA map :
    With(wallMapKeys(ab), LAMBDA keys : wallSetsOf(map, ab, keys))))

\* the new wall with x2 and y2 taken over the lower coordinate of each member
boundingSegment_MaxOfMin(walls, set) ==
    LET x1 == SetMin({Min2(walls[i].c[1], walls[i].c[3]) : i \in set})
        y1 == SetMin({Min2(walls[i].c[2], walls[i].c[4]) : i \in set})
        x2 == SetMax({Min2(walls[i].c[1], walls[i].c[3]) : i \in set})
        y2 == SetMax({Min2(walls[i].c[2], walls[i].c[4]) : i \in set})
    IN <<x1, y1, x2, y2>>

\* the new wall of one set: min and max x/y over the coords of its members
boundingSegment(walls, set) ==
    LET x1 == SetMin({Min2(walls[i].c[1], walls[i].c[3]) : i \in set})
        y1 == SetMin({Min2(walls[i].c[2], walls[i].c[4]) : i \in set})
        x2 == SetMax({Max2(walls[i].c[1], walls[i].c[3]) : i \in set})
        y2 == SetMax({Max2(walls[i].c[2], walls[i].c[4]) : i \in set})
    IN <<x1, y1, x2, y2>>

newWalls(walls) ==
    With(wallSets(walls), LAMBDA sets :
    [n \in 1..Len(sets) |-> boundingSegment(walls, sets[n])])

\* the ids the host gives to created documents: the lowest ids not in use
freshIds(scene, n) ==
    LET used == {scene[i].id : i \in 1..Len(scene)}
        F[j \in 0..n] ==
            IF j = 0 THEN <<>>
            ELSE Append(F[j - 1],
                        SetMin({d \in 1..(Len(scene) + n) : d \notin used \cup Range(F[j - 1])}))
    IN F[n]

\* a wall document created with only c and the auto flag has the default attributes
createdWall(id, c) ==
    [id |-> id, c |-> c, auto |-> TRUE, door |-> DefaultAttrs.door, dir |-> DefaultAttrs.dir,
     light |-> DefaultAttrs.light, sight |-> DefaultAttrs.sight,
     sound |-> DefaultAttrs.sound, move |-> DefaultAttrs.move,
     threshold |-> DefaultAttrs.threshold]

\* scene.deleteEmbeddedDocuments("Wall", ids)
deleteEmbeddedDocuments(scene, ids) == SelectIdx(scene, LAMBDA w : w.id \notin ids)

\* scene.createEmbeddedDocuments("Wall", cs) with the auto-detect flag set
createEmbeddedDocuments(scene, cs) ==
    LET ids == freshIds(scene, Len(cs))
    IN scene \o [n \in 1..Len(cs) |-> createdWall(ids[n], cs[n])]

\* the scene after combineSceneWalls(scene)
combinedScene(scene) ==
    With(basicWalls(scene), LAMBDA walls :
    With(newWalls(walls), LAMBDA created :
    createEmbeddedDocuments(
        deleteEmbeddedDocuments(scene, {walls[i].id : i \in 1..Len(walls)}), created)))

\* the user draws a wall by hand: a document without the auto flag
DrawWall ==
    /\ Len(sceneWalls) < MaxWalls
    /\ \E d \in Drawable :
          sceneWalls' = Append(sceneWalls,
              [id |-> freshIds(sceneWalls, 1)[1], c |-> d[1], auto |-> FALSE,
               door |-> d[2].door, dir |-> d[2].dir, light |-> d[2].light,
               sight |-> d[2].sight, sound |-> d[2].sound, move |-> d[2].move,
               threshold |-> d[2].threshold])
    /\ op' = "drawWall"
    /\ input' = NoInput
    /\ output' = NoOutput
    /\ UNCHANGED <<canvas, run, app>>

\* the Minimize Walls tool
combineSceneWalls ==
    /\ sceneWalls' = combinedScene(sceneWalls)
    /\ op' = "combineSceneWalls"
    /\ input' = [kind |-> "scene", walls |-> sceneWalls]
    /\ output' = NoOutput
    /\ UNCHANGED <<canvas, run, app>>

InitMerge ==
    /\ sceneWalls = <<>>
    /\ canvas = NoCanvas
    /\ op = "none"
    /\ input = NoInput
    /\ output = NoOutput
    /\ run = NoRun
    /\ app = NoApp

NextMerge == DrawWall \/ combineSceneWalls

SpecMerge == InitMerge /\ [][NextMerge]_vars

(***************************************************************************)
(* Properties of the wall merger                                           *)
(***************************************************************************)
attrsOf(w) ==
    [door |-> w.door, dir |-> w.dir, light |-> w.light, sight |-> w.sight,
     sound |-> w.sound, move |-> w.move, threshold |-> w.threshold]

\* a plain wall: every attribute has its default value
Plain(w) == attrsOf(w) = DefaultAttrs

plainOf(scene) == SelectIdx(scene, Plain)

specialOf(scene) == SelectIdx(scene, LAMBDA w : ~Plain(w))

coordsOf(walls) == [i \in 1..Len(walls) |-> walls[i].c]

RoundedEnds(c) == {<<Round(c[1]), Round(c[2])>>, <<Round(c[3]), Round(c[4])>>}

\* a rounded endpoint in common, in the same direction bucket
SharesKey(c1, c2) == {keyA(c1), keyB(c1)} \cap {keyA(c2), keyB(c2)} # {}

\* the bounding box of segment box contains segment c
Covers(box, c) ==
    /\ Min2(box[1], box[3]) <= Min2(c[1], c[3])
    /\ Min2(box[2], box[4]) <= Min2(c[2], c[4])
    /\ Max2(box[1], box[3]) >= Max2(c[1], c[3])
    /\ Max2(box[2], box[4]) >= Max2(c[2], c[4])

\* the box spanned by the segments cs, as a segment from its low to its high corner
BoxOf(cs) ==
    <<SetMin({c[1] : c \in cs} \cup {c[3] : c \in cs}),
      SetMin({c[2] : c \in cs} \cup {c[4] : c \in cs}),
      SetMax({c[1] : c \in cs} \cup {c[3] : c \in cs}),
      SetMax({c[2] : c \in cs} \cup {c[4] : c \in cs})>>

\* both segments have a length and their directions are at a right angle
Perpendicular(c1, c2) ==
    /\ <<c1[1], c1[2]>> # <<c1[3], c1[4]>>
    /\ <<c2[1], c2[2]>> # <<c2[3], c2[4]>>
    /\ (c1[3] - c1[1]) * (c2[3] - c2[1]) + (c1[4] - c1[2]) * (c2[4] - c2[2]) = 0

Combined == op = "combineSceneWalls"

\* C1: when the scene holds exactly two plain walls and they share a rounded
\* endpoint in the same direction bucket, combineSceneWalls leaves exactly one
\* plain wall, and its bounding box covers both originals (it is the box
\* spanned by the two).
C1_TwoSharingWallsBecomeOne ==
    (/\ Combined
     /\ Len(plainOf(input.walls)) = 2
     /\ SharesKey(plainOf(input.walls)[1].c, plainOf(input.walls)[2].c))
    => LET p == plainOf(input.walls)
           out == plainOf(sceneWalls)
       IN  /\ Len(out) = 1
           /\ Covers(out[1].c, p[1].c)
           /\ Covers(out[1].c, p[2].c)
           /\ out[1].c = BoxOf({p[1].c, p[2].c})

\* the example of the specification at half scale: (0,0)-(1/2,0) and
\* (1/2,0)-(1,0) have become (0,0)-(1,0)
C1_Witness ==
    /\ Combined
    /\ coordsOf(input.walls) = <<(<<0, 0, 1, 0>>), (<<1, 0, 2, 0>>)>>
    /\ Plain(input.walls[1]) /\ Plain(input.walls[2])
    /\ coordsOf(sceneWalls) = <<(<<0, 0, 2, 0>>)>>

\* C2: when the scene holds exactly two plain walls and they share no rounded
\* endpoint, combineSceneWalls leaves exactly two plain walls with the
\* coordinates (x1, y1, x2, y2) of the two originals.
C2_UnsharedWallsUnchanged ==
    (/\ Combined
     /\ Len(plainOf(input.walls)) = 2
     /\ RoundedEnds(plainOf(input.walls)[1].c) \cap RoundedEnds(plainOf(input.walls)[2].c) = {})
    => LET p == coordsOf(plainOf(input.walls))
           out == coordsOf(plainOf(sceneWalls))
       IN  /\ Len(out) = 2
           /\ out = p \/ out = <<p[2], p[1]>>

\* C3: combineSceneWalls never puts two mutually perpendicular plain walls in
\* the same set of connected walls, so never collapses them into one segment.
C3_PerpendicularNeverMerged ==
    Combined =>
        LET p == plainOf(input.walls)
            sets == wallSets(p)
        IN  \A n \in 1..Len(sets) : \A i \in sets[n], j \in sets[n] :
                ~Perpendicular(p[i].c, p[j].c)

\* C4: combineSceneWalls leaves every wall with a non-default attribute in the
\* scene as it was; the walls it deletes are plain, the plain walls it leaves
\* are the ones it created, and those are the segments that the plain walls
\* alone merge to.
C4_SpecialWallsUntouched ==
    Combined =>
        /\ specialOf(sceneWalls) = specialOf(input.walls)
        /\ \A i \in 1..Len(input.walls) :
              input.walls[i] \notin Range(sceneWalls) => Plain(input.walls[i])
        /\ \A i \in 1..Len(sceneWalls) : Plain(sceneWalls[i]) => sceneWalls[i].auto
        /\ coordsOf(plainOf(sceneWalls)) = newWalls(plainOf(input.walls))

\* a door and a plain wall on the same segment: the plain wall was replaced,
\* the door is still there
C4_Witness ==
    /\ Combined
    /\ Len(input.walls) = 2
    /\ input.walls[1].door = "DOOR"
    /\ Plain(input.walls[2])
    /\ input.walls[2].c = input.walls[1].c
    /\ Len(sceneWalls) = 2
    /\ sceneWalls[1] = input.walls[1]
    /\ sceneWalls[2].auto /\ sceneWalls[2].c = <<0, 0, 2, 1>>

(***************************************************************************)
(* Canvases                                                                *)
(*                                                                         *)
(* A canvas is [width, height, data]; data holds one <<r, g, b, a>> per    *)
(* pixel, row by row, so that pixel p (counted from 0) is data[p + 1] and  *)
(* the code's data[4 * p + ch] is data[p + 1][ch + 1].                     *)
(***************************************************************************)
pixelCount(cv) == cv.width * cv.height

\* every canvas of the given size with pixels drawn from colours
canvasesOf(width, height, colours) ==
    {[width |-> width, height |-> height, data |-> d] : d \in [1..(width * height) -> colours]}

\* a grey pixel of the given level
grey(v) == <<v, v, v, 255>>

(***************************************************************************)
(* Grid wall extractor: identifyWalls (part_003)                           *)
(***************************************************************************)

\* the largest canvas and cell size given to identifyWalls
MaxWidth == 3

MaxHeight == 2

MaxGrid == 3

\* the threshold sceneToWalls passes
SceneThreshold == 50

\* the threshold identifyWalls defaults to
DefaultThreshold100 == 100

Thresholds == {SceneThreshold, DefaultThreshold100}

\* an unguarded read that takes a sample outside data (undefined) to reach
\* the threshold
atLeast_UndefinedPasses(cv, p, threshold) ==
    IF p >= 0 /\ p < pixelCount(cv) THEN cv.data[p + 1][1] >= threshold ELSE TRUE

\* data[index] >= threshold for index = 4 * p: outside data the read is
\* undefined and the comparison false
atLeast(cv, p, threshold) ==
    IF p >= 0 /\ p < pixelCount(cv) THEN cv.data[p + 1][1] >= threshold ELSE FALSE

\* index >= 0 && index < data.length && data[index] >= threshold
guardedAtLeast(cv, p, threshold) ==
    /\ p >= 0
    /\ p < pixelCount(cv)
    /\ cv.data[p + 1][1] >= threshold

\* the counters of one tile after its loop over i = 0 .. grid - 1 (no turn
\* of the loop for grid <= 0)
scanTile(cv, grid, threshold, x, y) ==
    LET F[n \in 0..Max2(grid, 0)] ==
            IF n = 0
            THEN [horizontal |-> 0, mhorizontal |-> 0, vertical |-> 0, mvertical |-> 0]
            ELSE With(F[n - 1], LAMBDA t :
                 With(n - 1, LAMBDA i :
                 LET indexH  == y * cv.width + x + i
                     indexH2 == (y - 1) * cv.width + x + i
                     indexV  == (y + i) * cv.width + x
                     indexV2 == (y + i) * cv.width + (x - 1)
                     h == atLeast(cv, indexH, threshold)
                            \/ guardedAtLeast(cv, indexH2, threshold)
                     v == atLeast(cv, indexV, threshold)
                            \/ guardedAtLeast(cv, indexV2, threshold)
                 IN [horizontal  |-> IF h THEN t.horizontal + 1 ELSE 0,
                     mhorizontal |-> IF h THEN Max2(t.mhorizontal, t.horizontal + 1)
                                          ELSE t.mhorizontal,
                     vertical    |-> IF v THEN t.vertical + 1 ELSE 0,
                     mvertical   |-> IF v THEN Max2(t.mvertical, t.vertical + 1)
                                          ELSE t.mvertical]))
    IN F[Max2(grid, 0)]

\* a run never longer than half the cell
longRun_Never(m, grid) == m > grid

\* m > grid / 2
longRun(m, grid) == 2 * m > grid

\* a tile that pushes its right edge in place of its left edge
tileWalls_RightEdge(cv, grid, threshold, x, y) ==
    With(scanTile(cv, grid, threshold, x, y), LAMBDA t :
        (IF longRun(t.mhorizontal, grid) THEN <<(<<x, y, x + grid, y>>)>> ELSE <<>>)
        \o (IF longRun(t.mvertical, grid) THEN <<(<<x + grid, y, x + grid, y + grid>>)>>
            ELSE <<>>))

\* the walls one tile pushes
tileWalls(cv, grid, threshold, x, y) ==
    With(scanTile(cv, grid, threshold, x, y), LAMBDA t :
        (IF longRun(t.mhorizontal, grid) THEN <<(<<x, y, x + grid, y>>)>> ELSE <<>>)
        \o (IF longRun(t.mvertical, grid) THEN <<(<<x, y, x, y + grid>>)>> ELSE <<>>))

\* the tile origins along one axis: 0, grid, 2 * grid, ... below size
origins(size, grid) == [k \in 1..((size + grid - 1) \div grid) |-> (k - 1) * grid]

\* identifyWalls(canvas, grid, {threshold}) for grid >= 1
identifyWalls(cv, grid, threshold) ==
    LET xs == origins(cv.width, grid)
        ys == origins(cv.height, grid)
        Row[r \in 1..Len(ys)] ==
            LET G[k \in 0..Len(xs)] ==
                    IF k = 0 THEN <<>>
                    ELSE G[k - 1] \o tileWalls(cv, grid, threshold, xs[k], ys[r])
            IN G[Len(xs)]
        All[r \in 0..Len(ys)] == IF r = 0 THEN <<>> ELSE All[r - 1] \o Row[r]
    IN All[Len(ys)]

\* a call of identifyWalls on the canvas
IdentifyWalls ==
    /\ \E grid \in 1..MaxGrid, threshold \in Thresholds :
          /\ input' = [kind |-> "identifyWalls", canvas |-> canvas, grid |-> grid,
                       threshold |-> threshold]
          /\ output' = [kind |-> "walls", walls |-> identifyWalls(canvas, grid, threshold)]
    /\ op' = "identifyWalls"
    /\ UNCHANGED <<canvas, sceneWalls, run, app>>

\* the edge canvas: every pixel is just below or exactly at the threshold
\* sceneToWalls passes
InitWalls ==
    /\ sceneWalls = <<>>
    /\ \E w \in 1..MaxWidth, h \in 1..MaxHeight :
          canvas \in canvasesOf(w, h, {grey(SceneThreshold - 1), grey(SceneThreshold)})
    /\ op = "none"
    /\ input = NoInput
    /\ output = NoOutput
    /\ run = NoRun
    /\ app = NoApp

NextWalls == IdentifyWalls

SpecWalls == InitWalls /\ [][NextWalls]_vars

(***************************************************************************)
(* Properties of the grid wall extractor                                   *)
(***************************************************************************)
Identified == op = "identifyWalls"

\* the pixels (x, y) of the canvas whose sample reaches the threshold
brightPixels(cv, threshold) ==
    {xy \in (0..(cv.width - 1)) \X (0..(cv.height - 1)) :
        cv.data[xy[2] * cv.width + xy[1] + 1][1] >= threshold}

\* the pixels of the horizontal line of len pixels from (x0, y0)
hLine(x0, y0, len) == {<<x, y0>> : x \in x0..(x0 + len - 1)}

\* the call was given a canvas whose bright pixels are exactly one horizontal
\* line of len pixels, on the top row of the tile at (X, Y) and inside it
OneLineOnTopRow(X, Y, x0, len) ==
    /\ X % input.grid = 0 /\ Y % input.grid = 0
    /\ X < input.canvas.width /\ Y < input.canvas.height
    /\ len >= 1 /\ X <= x0 /\ x0 + len <= X + input.grid
    /\ x0 + len <= input.canvas.width
    /\ brightPixels(input.canvas, input.threshold) = hLine(x0, Y, len)

LineCases == (0..MaxWidth) \X (0..MaxHeight) \X (0..MaxWidth) \X (1..MaxWidth)

C6_EmptyBufferNoWalls ==
    (Identified /\ brightPixels(input.canvas, input.threshold) = {})
    => output.walls = <<>>

\* a 3 x 2 canvas with samples of 49 and 50, all below the threshold of 100,
\* cell size 2 (the right-hand tiles are partial): no segment
C6_Witness ==
    /\ Identified
    /\ input.threshold = DefaultThreshold100 /\ input.grid = 2
    /\ input.canvas.width = 3 /\ input.canvas.height = 2
    /\ \E p \in 1..6 : input.canvas.data[p][1] = SceneThreshold
    /\ output.walls = <<>>

(***************************************************************************)
(* Pixel operations: convertToGrayscale, applyMedianFilter (part_000)      *)
(***************************************************************************)

\* the largest canvas given to the pixel operations
MaxOpsWidth == 2

MaxOpsHeight == 2

\* the largest kernelSize given to applyMedianFilter
MaxKernel == 3

\* opaque colours of luminance 0.886 and 76.245; neither has a luminance
\* that ends in exactly .5, where the rounding error of the double sum would
\* decide the byte
OpsColours == {<<1, 1, 0, 255>>, <<255, 0, 0, 255>>}

\* 0.299 * r + 0.587 * g + 0.114 * b, in thousandths
luminance(px) == 299 * px[1] + 587 * px[2] + 114 * px[3]

\* a store that drops the fraction of n / scale
toUint8Clamped_Truncated(n, scale) == Max2(0, Min2(255, n \div scale))

\* the byte a Uint8ClampedArray keeps when n / scale is stored into it:
\* rounded to the nearest integer, a tie to the even one, clamped to 0..255
toUint8Clamped(n, scale) ==
    LET q == n \div scale
        r == n % scale
        up == 2 * r > scale \/ (2 * r = scale /\ q % 2 = 1)
    IN Max2(0, Min2(255, IF up THEN q + 1 ELSE q))

\* convertToGrayscale(imageData): one byte per pixel
convertToGrayscale(imageData) ==
    [width |-> imageData.width, height |-> imageData.height,
     data |-> [p \in 1..pixelCount(imageData) |->
                  toUint8Clamped(luminance(imageData.data[p]), 1000)]]

\* if (kernelSize % 2 === 0) kernelSize++
oddKernel(kernelSize) == IF kernelSize % 2 = 0 THEN kernelSize + 1 ELSE kernelSize

\* half a kernel rounded up
halfKernel_Ceil(kernelSize) == (kernelSize + 1) \div 2

\* Math.floor(kernelSize / 2)
halfKernel(kernelSize) == kernelSize \div 2

\* Math.min(Math.max(v, lo), hi)
clamp(v, lo, hi) == Min2(Max2(v, lo), hi)

\* the pixels gathered for (x, y): ky in the outer loop, kx in the inner one,
\* coordinates clamped to the canvas
gather(cv, x, y, half) ==
    LET k == 2 * half + 1
    IN [j \in 1..(IF k > 0 THEN k * k ELSE 0) |->
           LET ky == ((j - 1) \div k) - half
               kx == ((j - 1) % k) - half
               pixelX == clamp(x + kx, 0, cv.width - 1)
               pixelY == clamp(y + ky, 0, cv.height - 1)
           IN cv.data[pixelY * cv.width + pixelX + 1]]

\* one more pixel put behind the sorted pixels that are not brighter
insertByLuminance(sorted, px) ==
    LET k == Cardinality({i \in 1..Len(sorted) : luminance(sorted[i]) <= luminance(px)})
    IN SubSeq(sorted, 1, k) \o <<px>> \o SubSeq(sorted, k + 1, Len(sorted))

\* pixels.sort((a, b) => a.luminance - b.luminance), a stable sort
sortByLuminance(pixels) ==
    LET F[n \in 0..Len(pixels)] ==
            IF n = 0 THEN <<>> ELSE insertByLuminance(F[n - 1], pixels[n])
    IN F[Len(pixels)]

\* the median taken channel by channel
medianPixel_PerChannel(pixels) ==
    LET middle(c) ==
            CHOOSE v \in {pixels[i][c] : i \in 1..Len(pixels)} :
                /\ 2 * Cardinality({i \in 1..Len(pixels) : pixels[i][c] < v}) <= Len(pixels)
                /\ 2 * Cardinality({i \in 1..Len(pixels) : pixels[i][c] > v}) <= Len(pixels)
    IN <<middle(1), middle(2), middle(3), middle(4)>>

\* pixels[Math.floor(pixels.length / 2)] of the sorted pixels
medianPixel(pixels) == sortByLuminance(pixels)[Len(pixels) \div 2 + 1]

\* the image data applyMedianFilter puts back on the canvas
medianFiltered(cv, kernelSize) ==
    With(halfKernel(oddKernel(kernelSize)), LAMBDA half :
        [cv EXCEPT !.data =
            [p \in 1..pixelCount(cv) |->
                medianPixel(gather(cv, (p - 1) % cv.width, (p - 1) \div cv.width, half)
                            \o <<>>)]])

\* a call of convertToGrayscale on the image data of the canvas
ConvertToGrayscale ==
    /\ input' = [kind |-> "convertToGrayscale", canvas |-> canvas]
    /\ output' = [kind |-> "grayscale", image |-> convertToGrayscale(canvas)]
    /\ op' = "convertToGrayscale"
    /\ UNCHANGED <<canvas, sceneWalls, run, app>>

\* a call of applyMedianFilter on the canvas; no pixel is gathered for a
\* negative kernelSize and reading the median pixel's r throws
ApplyMedianFilter ==
    /\ \E kernelSize \in (-1)..MaxKernel :
          /\ input' = [kind |-> "applyMedianFilter", canvas |-> canvas,
                       kernelSize |-> kernelSize]
          /\ IF halfKernel(oddKernel(kernelSize)) < 0
             THEN /\ canvas' = canvas
                  /\ output' = [kind |-> "error", error |-> "TypeError"]
             ELSE /\ canvas' = medianFiltered(canvas, kernelSize)
                  /\ output' = NoOutput
    /\ op' = "applyMedianFilter"
    /\ UNCHANGED <<sceneWalls, run, app>>

InitOps ==
    /\ sceneWalls = <<>>
    /\ \E w \in 1..MaxOpsWidth, h \in 1..MaxOpsHeight : canvas \in canvasesOf(w, h, OpsColours)
    /\ op = "none"
    /\ input = NoInput
    /\ output = NoOutput
    /\ run = NoRun
    /\ app = NoApp

NextOps == ConvertToGrayscale \/ ApplyMedianFilter

SpecOps == InitOps /\ [][NextOps]_vars

(***************************************************************************)
(* Properties of the pixel operations                                      *)
(***************************************************************************)

\* C9: applyMedianFilter with kernelSize = 1 leaves the RGBA tuple of every
\* pixel of every image as it was.
C9_MedianKernelOneIsIdentity ==
    (op = "applyMedianFilter" /\ input.kernelSize = 1)
    => /\ output = NoOutput
       /\ canvas.width = input.canvas.width
       /\ canvas.height = input.canvas.height
       /\ \A p \in 1..pixelCount(input.canvas) : canvas.data[p] = input.canvas.data[p]

\* a 2 x 2 canvas of two colours went through the filter with kernelSize 1
\* and is as before
C9_Witness ==
    /\ op = "applyMedianFilter" /\ input.kernelSize = 1
    /\ input.canvas.width = 2 /\ input.canvas.height = 2
    /\ Cardinality(Range(input.canvas.data)) = 2
    /\ canvas = input.canvas

\* C10 as stated: convertToGrayscale returns width * height values and each
\* is the luminance 0.299 R + 0.587 G + 0.114 B of its pixel rounded down to
\* an integer of 0..255.
C10_GrayscaleTruncates ==
    op = "convertToGrayscale" =>
        /\ Len(output.image.data) = input.canvas.width * input.canvas.height
        /\ \A p \in 1..Len(output.image.data) :
              LET g == output.image.data[p]
                  l == luminance(input.canvas.data[p])
              IN g \in 0..255 /\ 1000 * g <= l /\ l < 1000 * (g + 1)

\* C10 amended: convertToGrayscale returns width * height values and each is
\* an integer of 0..255 nearest to the luminance of its pixel (at most 1/2
\* away from it).
C10_GrayscaleRoundsToNearest ==
    op = "convertToGrayscale" =>
        /\ Len(output.image.data) = input.canvas.width * input.canvas.height
        /\ \A p \in 1..Len(output.image.data) :
              LET g == output.image.data[p]
                  l == luminance(input.canvas.data[p])
              IN g \in 0..255 /\ 2 * Abs(1000 * g - l) <= 1000

\* a 2 x 2 canvas with a pixel of luminance 0.886 was converted: four
\* values, and the one of that pixel is 1
C10_Witness ==
    /\ op = "convertToGrayscale"
    /\ input.canvas.width = 2 /\ input.canvas.height = 2
    /\ input.canvas.data[1] = <<1, 1, 0, 255>>
    /\ Len(output.image.data) = 4
    /\ output.image.data[1] = 1

(***************************************************************************)
(* Small-region removal: removeSmallRegions (remove-holes.mjs)             *)
(*                                                                         *)
(* Pixels are named by p = y * width + x, the code's index into visited;   *)
(* the code's pixelIdx is 4 * p.                                           *)
(***************************************************************************)

\* the largest canvas and the largest maxRegionSize given to
\* removeSmallRegions
MaxRegionWidth == 5

MaxRegionHeight == 2

MaxRegionSize == 2

RegionColours == {<<0, 0, 0, 255>>, <<255, 255, 255, 255>>}

\* dx = [0, 1, 0, -1] and dy = [-1, 0, 1, 0]
neighbourOffsets == <<(<<0, -1>>), (<<1, 0>>), (<<0, 1>>), (<<-1, 0>>)>>

\* const channels = includeAlpha ? 4 : 3
channels(includeAlpha) == IF includeAlpha THEN 4 ELSE 3

colorsEqual(cv, p1, p2, includeAlpha) ==
    \A i \in 1..channels(includeAlpha) : cv.data[p1 + 1][i] = cv.data[p2 + 1][i]

\* the key "r,g,b" or "r,g,b,a" as the tuple of its numbers
getColorKey(cv, p, includeAlpha) == SubSeq(cv.data[p + 1], 1, channels(includeAlpha))

\* the i-th neighbour of the pixel p taken from the queue
checkNeighbour(cv, includeAlpha, p, i, st) ==
    LET nx == (p % cv.width) + neighbourOffsets[i][1]
        ny == (p \div cv.width) + neighbourOffsets[i][2]
        n == ny * cv.width + nx
    IN IF nx < 0 \/ nx >= cv.width \/ ny < 0 \/ ny >= cv.height THEN st
       ELSE IF n \in st.visited THEN st
       ELSE IF colorsEqual(cv, p, n, includeAlpha)
            THEN [st EXCEPT !.queue = Append(@, n), !.visited = @ \cup {n}]
            ELSE [st EXCEPT !.borderPixels = AddOnce(@, n)]

\* regionPixels.length > maxRegionSize * 3
tooLarge(size, maxRegionSize) == size > maxRegionSize * 3

\* the while loop of findRegion: the head of the queue joins the region, its
\* four neighbours are looked at, and the loop breaks on a region too large
RECURSIVE bfs(_, _, _, _)
bfs(cv, maxRegionSize, includeAlpha, st) ==
    IF st.queue = <<>> THEN st
    ELSE With(Head(st.queue), LAMBDA p :
         With([st EXCEPT !.queue = Tail(@), !.regionPixels = Append(@, p)], LAMBDA s0 :
         With(checkNeighbour(cv, includeAlpha, p, 1, s0), LAMBDA s1 :
         With(checkNeighbour(cv, includeAlpha, p, 2, s1), LAMBDA s2 :
         With(checkNeighbour(cv, includeAlpha, p, 3, s2), LAMBDA s3 :
         With(checkNeighbour(cv, includeAlpha, p, 4, s3), LAMBDA s4 :
             IF tooLarge(Len(s4.regionPixels), maxRegionSize) THEN s4
             ELSE bfs(cv, maxRegionSize, includeAlpha, s4)))))))

\* findRegion from the pixel start: visited and allRegions after the call
findRegion(cv, maxRegionSize, includeAlpha, start, acc) ==
    With(bfs(cv, maxRegionSize, includeAlpha,
             [queue |-> <<start>>, visited |-> acc.visited \cup {start},
              regionPixels |-> <<>>, borderPixels |-> <<>>]), LAMBDA st :
        [visited |-> st.visited,
         allRegions |->
            IF /\ Len(st.regionPixels) > 0
               /\ Len(st.regionPixels) <= maxRegionSize
               /\ Len(st.borderPixels) > 0
            THEN Append(acc.allRegions,
                        [size |-> Len(st.regionPixels),
                         pixels |-> st.regionPixels,
                         borders |-> [i \in 1..Len(st.borderPixels) |->
                                         getColorKey(cv, st.borderPixels[i], includeAlpha)]])
            ELSE acc.allRegions])

\* first pass: allRegions after the scan of the pixels row by row
collectRegions(cv, maxRegionSize, includeAlpha) ==
    LET F[k \in 0..pixelCount(cv)] ==
            IF k = 0 THEN [visited |-> {}, allRegions |-> <<>>]
            ELSE With(F[k - 1], LAMBDA acc :
                     IF (k - 1) \in acc.visited THEN acc
                     ELSE findRegion(cv, maxRegionSize, includeAlpha, k - 1, acc))
    IN F[pixelCount(cv)].allRegions

\* one more region put behind the sorted regions that are not larger
insertBySize(sorted, region) ==
    LET k == Cardinality({i \in 1..Len(sorted) : sorted[i].size <= region.size})
    IN SubSeq(sorted, 1, k) \o <<region>> \o SubSeq(sorted, k + 1, Len(sorted))

\* allRegions.sort((a, b) => a.size - b.size), a stable sort
sortBySize(regions) ==
    LET F[n \in 0..Len(regions)] ==
            IF n = 0 THEN <<>> ELSE insertBySize(F[n - 1], regions[n])
    IN F[Len(regions)]

\* the keys of colorFrequency in the order they were first set
colorFrequencyKeys(borders) ==
    LET F[n \in 0..Len(borders)] ==
            IF n = 0 THEN <<>> ELSE AddOnce(F[n - 1], borders[n])
    IN F[Len(borders)]

\* the first key of colorFrequency with the greatest frequency
mostCommonColor(borders) ==
    LET keys == colorFrequencyKeys(borders)
        frequency(k) == Cardinality({i \in 1..Len(borders) : borders[i] = k})
        best == CHOOSE j \in 1..Len(keys) :
                    /\ \A i \in 1..Len(keys) : frequency(keys[i]) <= frequency(keys[j])
                    /\ \A i \in 1..(j - 1) : frequency(keys[i]) < frequency(keys[j])
    IN keys[best]

\* the pixels of the region take r, g, b of the colour, and a with
\* includeAlpha
repaint(data, region, colour, includeAlpha) ==
    [p \in 1..Len(data) |->
        IF (p - 1) \in Range(region.pixels)
        THEN IF includeAlpha THEN colour
             ELSE <<colour[1], colour[2], colour[3], data[p][4]>>
        ELSE data[p]]

\* second pass: the image data removeSmallRegions puts back on the canvas
smallRegionsRemoved(cv, maxRegionSize, includeAlpha) ==
    With(sortBySize(collectRegions(cv, maxRegionSize, includeAlpha)), LAMBDA regions :
        LET F[n \in 0..Len(regions)] ==
                IF n = 0 THEN cv.data
                ELSE repaint(F[n - 1], regions[n], mostCommonColor(regions[n].borders),
                             includeAlpha) \o <<>>
        IN [cv EXCEPT !.data = F[Len(regions)]])

\* a call of removeSmallRegions on the canvas
RemoveSmallRegions ==
    /\ \E maxRegionSize \in 1..MaxRegionSize, includeAlpha \in BOOLEAN :
          /\ input' = [kind |-> "removeSmallRegions", canvas |-> canvas,
                       maxRegionSize |-> maxRegionSize, includeAlpha |-> includeAlpha]
          /\ canvas' = smallRegionsRemoved(canvas, maxRegionSize, includeAlpha)
    /\ output' = NoOutput
    /\ op' = "removeSmallRegions"
    /\ UNCHANGED <<sceneWalls, run, app>>

InitRegions ==
    /\ sceneWalls = <<>>
    /\ \E w \in 1..MaxRegionWidth, h \in 1..MaxRegionHeight :
          canvas \in canvasesOf(w, h, RegionColours)
    /\ op = "none"
    /\ input = NoInput
    /\ output = NoOutput
    /\ run = NoRun
    /\ app = NoApp

NextRegions == RemoveSmallRegions

SpecRegions == InitRegions /\ [][NextRegions]_vars

(***************************************************************************)
(* Properties of the small-region removal                                  *)
(***************************************************************************)

\* the pixels q and r are 4-connected neighbours
adjacent(cv, q, r) ==
    \/ q \div cv.width = r \div cv.width /\ Abs(q - r) = 1
    \/ q % cv.width = r % cv.width /\ Abs(q - r) = cv.width

\* the 4-connected same-colour region that holds the pixels of set
RECURSIVE regionOf(_, _, _)
regionOf(cv, includeAlpha, set) ==
    LET next == set \cup {q \in 0..(pixelCount(cv) - 1) :
                             \E r \in set : adjacent(cv, q, r)
                                            /\ colorsEqual(cv, q, r, includeAlpha)}
    IN IF next = set THEN set ELSE regionOf(cv, includeAlpha, next)

\* the image has no 4-connected same-colour region of size <= maxRegionSize
NoSmallRegion(cv, maxRegionSize, includeAlpha) ==
    \A p \in 0..(pixelCount(cv) - 1) :
        Cardinality(regionOf(cv, includeAlpha, {p})) > maxRegionSize

\* C8: removeSmallRegions on an image without a 4-connected same-colour
\* region of size <= maxRegionSize changes no pixel, on the first and on
\* every later pass, also where a region is larger than 3 * maxRegionSize.
C8_NoSmallRegionNoChange ==
    (op = "removeSmallRegions"
        /\ NoSmallRegion(input.canvas, input.maxRegionSize, input.includeAlpha))
    => canvas = input.canvas

(***************************************************************************)
(* Canny edge detection: cannyEdgeDetection (canny.mjs), with              *)
(* applyGaussianBlur (part_000)                                            *)
(*                                                                         *)
(* A single-channel image is [width, height, data] with one byte per       *)
(* pixel; the pixel (x, y) is data[y * width + x + 1].                     *)
(***************************************************************************)

\* the largest canvas given to cannyEdgeDetection
MaxCannyWidth == 3

MaxCannyHeight == 3

CannyColours == {<<0, 0, 0, 255>>, <<255, 255, 255, 255>>}

\* the thresholds cannyEdgeDetection defaults to
LowThreshold == 40

HighThreshold == 70

\* the default thresholds and the pair its documentation names
CannyOptions ==
    {[lowThreshold |-> LowThreshold, highThreshold |-> HighThreshold],
     [lowThreshold |-> 10, highThreshold |-> 30]}

NoEdgesDetected == "No edges detected in the image. Please check the input image."

\* the normalised Float32Array kernel for sigma = 1.4 (kernelSize 11): its
\* i-th entry is exactly (kernelHigh[i] * 65536 + kernelLow[i]) / 2^32
kernelHigh == <<31, 315, 1880, 6731, 14471, 18676, 14471, 6731, 1880, 315, 31>>

kernelLow ==
    <<48239, 16512, 7320, 51904, 832, 12544, 832, 51904, 7320, 16512, 48239>>

\* Math.floor(kernelSize / 2)
halfSize == Len(kernelHigh) \div 2

RECURSIVE sum(_)
sum(s) == IF s = <<>> THEN 0 ELSE Head(s) + sum(Tail(s))

\* the sum of samples[i] * kernel[i] over the 11 entries of a kernel
weighted(samples, kernel) ==
    samples[1] * kernel[1] + samples[2] * kernel[2] + samples[3] * kernel[3]
    + samples[4] * kernel[4] + samples[5] * kernel[5] + samples[6] * kernel[6]
    + samples[7] * kernel[7] + samples[8] * kernel[8] + samples[9] * kernel[9]
    + samples[10] * kernel[10] + samples[11] * kernel[11]

\* the byte kept when the sum of samples[i] * kernel[i] is stored into a
\* Uint8ClampedArray; the double sum is exact, a multiple of 2^-32 below 256
blurredByte(samples) ==
    With(weighted(samples, kernelLow), LAMBDA low :
    With(weighted(samples, kernelHigh) + (low \div 65536), LAMBDA units :
        LET rest == low % 65536
            q == units \div 65536
            r == units % 65536
            up == r > 32768 \/ (r = 32768 /\ (rest > 0 \/ q % 2 = 1))
        IN Max2(0, Min2(255, IF up THEN q + 1 ELSE q))))

\* applyGaussianBlur(imageData, 1.4): a horizontal pass into tempData, then
\* a vertical pass over tempData, positions clamped to the image
applyGaussianBlur(imageData) ==
    LET width == imageData.width
        height == imageData.height
        n == width * height
        tempData ==
            [p \in 1..n |->
                blurredByte([i \in 1..Len(kernelHigh) |->
                    imageData.data[((p - 1) \div width) * width
                        + clamp(((p - 1) % width) + i - 1 - halfSize, 0, width - 1) + 1]])]
            \o <<>>
    IN With(tempData, LAMBDA temp :
        [width |-> width, height |-> height,
         data |-> [p \in 1..n |->
                      blurredByte([i \in 1..Len(kernelHigh) |->
                          temp[clamp(((p - 1) \div width) + i - 1 - halfSize, 0, height - 1)
                                  * width + ((p - 1) % width) + 1]])]
                  \o <<>>])

sobelX == <<-1, 0, 1, -2, 0, 2, -1, 0, 1>>

sobelY == <<-1, -2, -1, 0, 0, 0, 1, 2, 1>>

\* gx and gy of the interior pixel (x, y)
sobel(imageData, x, y) ==
    LET sample(j) == imageData.data[(y + ((j - 1) \div 3) - 1) * imageData.width
                                    + (x + ((j - 1) % 3) - 1) + 1]
    IN [gx |-> sum([j \in 1..9 |-> sample(j) * sobelX[j]]),
        gy |-> sum([j \in 1..9 |-> sample(j) * sobelY[j]])]

\* Math.min(255, Math.sqrt(s)) stored into a Uint8ClampedArray, for s the
\* sum of two squares: the square root is never halfway between integers
magnitudeByte(s) ==
    IF s = 0 THEN 0
    ELSE IF s >= 64771 THEN 255
    ELSE CHOOSE m \in 0..254 : m * m - m + 1 <= s /\ s <= m * m + m

\* the quantised direction of atan2(gy, gx) in degrees, 180 added to a
\* negative angle: tan of 22.5 degrees is sqrt(2) - 1 and tan of 67.5
\* degrees is sqrt(2) + 1
quantisedDirection(gx, gy) ==
    LET ux == IF gy < 0 THEN 0 - gx ELSE gx
        uy == Abs(gy)
        ax == Abs(gx)
    IN IF uy = 0 \/ (uy + ax) * (uy + ax) < 2 * ax * ax THEN 0
       ELSE IF uy >= ax /\ (uy - ax) * (uy - ax) > 2 * ax * ax THEN 90
       ELSE IF ux > 0 THEN 45 ELSE 135

\* (x, y) is not on the border of the image
interior(width, height, x, y) == x >= 1 /\ x < width - 1 /\ y >= 1 /\ y < height - 1

\* calculateGradients: magnitude and direction, 0 on the border
calculateGradients(imageData) ==
    LET width == imageData.width
        height == imageData.height
        g == [p \in 1..(width * height) |->
                 LET x == (p - 1) % width
                     y == (p - 1) \div width
                 IN IF interior(width, height, x, y)
                    THEN With(sobel(imageData, x, y), LAMBDA s :
                             [magnitude |-> magnitudeByte(s.gx * s.gx + s.gy * s.gy),
                              direction |-> quantisedDirection(s.gx, s.gy)])
                    ELSE [magnitude |-> 0, direction |-> 0]] \o <<>>
    IN With(g, LAMBDA gs :
        [gradientMagnitude |-> [p \in 1..Len(gs) |-> gs[p].magnitude] \o <<>>,
         gradientDirection |-> [p \in 1..Len(gs) |-> gs[p].direction] \o <<>>])

\* the two neighbours along the direction, as offsets in x and y
directionNeighbours(direction) ==
    IF direction = 0 THEN <<(<<-1, 0>>), (<<1, 0>>)>>
    ELSE IF direction = 45 THEN <<(<<1, -1>>), (<<-1, 1>>)>>
    ELSE IF direction = 90 THEN <<(<<0, -1>>), (<<0, 1>>)>>
    ELSE <<(<<-1, -1>>), (<<1, 1>>)>>

\* applyNonMaximumSuppression: an interior pixel keeps its magnitude if it
\* is at least 10 and not below its two neighbours along the direction
applyNonMaximumSuppression(magnitudeData, directionData, width, height) ==
    [p \in 1..(width * height) |->
        LET x == (p - 1) % width
            y == (p - 1) \div width
            magnitude == magnitudeData[p]
            nb == directionNeighbours(directionData[p])
            neighbourValue(k) ==
                magnitudeData[clamp(y + nb[k][2], 0, height - 1) * width
                              + clamp(x + nb[k][1], 0, width - 1) + 1]
        IN IF ~interior(width, height, x, y) THEN 0
           ELSE IF magnitude < 10 THEN 0
           ELSE IF magnitude >= neighbourValue(1) /\ magnitude >= neighbourValue(2)
                THEN magnitude
                ELSE 0] \o <<>>

\* maxValue after the loop of lines 45-48
maxValueOf(suppressed) == SetMax({1} \cup Range(suppressed))

\* a test that lets a maxValue of 1 pass
noEdges_BelowOne(maxValue) == maxValue < 1

\* if (maxValue <= 1) throw
noEdges(maxValue) == maxValue <= 1

\* the pixels q and r are 8-connected neighbours
touching(width, q, r) ==
    /\ q # r
    /\ Abs((q % width) - (r % width)) <= 1
    /\ Abs((q \div width) - (r \div width)) <= 1

\* dx = [-1, -1, 0, 1, 1, 1, 0, -1] and dy = [0, -1, -1, -1, 0, 1, 1, 1]
edgeOffsets ==
    <<(<<-1, 0>>), (<<-1, -1>>), (<<0, -1>>), (<<1, -1>>),
      (<<1, 0>>), (<<1, 1>>), (<<0, 1>>), (<<-1, 1>>)>>

\* the i-th pixel of the 8-connected neighbourhood of idx, or -1 outside the
\* image
edgeNeighbour(width, height, idx, i) ==
    LET nx == (idx % width) + edgeOffsets[i][1]
        ny == (idx \div width) + edgeOffsets[i][2]
    IN IF nx >= 0 /\ nx < width /\ ny >= 0 /\ ny < height THEN ny * width + nx ELSE -1

\* a sample just above the low threshold counts as weak
weak_AboveLow(data, idx, lowThreshold) == data[idx + 1] > lowThreshold

\* data[neighborIdx] >= lowThreshold
weak(data, idx, lowThreshold) == data[idx + 1] >= lowThreshold

\* the while loop of trace: the top of the stack is popped, and each of its
\* neighbours that is unvisited and reaches the low threshold is marked and
\* pushed
RECURSIVE trace(_, _, _, _, _)
trace(data, width, height, lowThreshold, st) ==
    IF st.stack = <<>> THEN st
    ELSE With(st.stack[Len(st.stack)], LAMBDA current :
         LET G[i \in 0..8] ==
                 IF i = 0 THEN [st EXCEPT !.stack = SubSeq(@, 1, Len(@) - 1)]
                 ELSE With(G[i - 1], LAMBDA s :
                      With(edgeNeighbour(width, height, current, i), LAMBDA neighborIdx :
                          IF /\ neighborIdx >= 0
                             /\ neighborIdx \notin s.visited
                             /\ weak(data, neighborIdx, lowThreshold)
                          THEN [stack |-> Append(s.stack, neighborIdx),
                                edges |-> s.edges \cup {neighborIdx},
                                visited |-> s.visited \cup {neighborIdx}]
                          ELSE s))
         IN trace(data, width, height, lowThreshold, G[8]))

\* applyHysteresis: 255 for the strong pixels and for the pixels the traces
\* from the marked pixels reach, in scan order
applyHysteresis(data, width, lowThreshold, highThreshold) ==
    With({q \in 0..(Len(data) - 1) : data[q + 1] >= highThreshold}, LAMBDA strongEdges :
        LET T[k \in 0..Len(data)] ==
                IF k = 0
                THEN [stack |-> <<>>, edges |-> strongEdges, visited |-> strongEdges]
                ELSE With(T[k - 1], LAMBDA s :
                         IF (k - 1) \in s.edges /\ (k - 1) \in s.visited
                         THEN trace(data, width, Len(data) \div width, lowThreshold,
                                    [s EXCEPT !.stack = <<k - 1>>])
                         ELSE s)
        IN With(T[Len(data)].edges, LAMBDA marked :
               [p \in 1..Len(data) |-> IF (p - 1) \in marked THEN 255 ELSE 0] \o <<>>))

\* suppressedEdges.data of the canvas
suppressedEdges(cv) ==
    With(calculateGradients(applyGaussianBlur(convertToGrayscale(cv))), LAMBDA g :
        applyNonMaximumSuppression(g.gradientMagnitude, g.gradientDirection,
                                   cv.width, cv.height))

\* the output image: white for edges, black for the rest, opaque
edgeCanvas(cv, edges) ==
    [cv EXCEPT !.data = [p \in 1..Len(edges) |-> <<edges[p], edges[p], edges[p], 255>>]]

\* what cannyEdgeDetection (sigma 1.4) leaves: it throws before the canvas
\* is written, or puts the edge image on the canvas and returns it
cannyEdgeDetection(cv, options) ==
    With(suppressedEdges(cv), LAMBDA suppressed :
        IF noEdges(maxValueOf(suppressed))
        THEN [canvas |-> cv, output |-> [kind |-> "error", message |-> NoEdgesDetected]]
        ELSE [canvas |-> edgeCanvas(cv, applyHysteresis(suppressed, cv.width,
                                            options.lowThreshold, options.highThreshold)),
              output |-> [kind |-> "canvas"]])

\* a call of cannyEdgeDetection on the canvas
CannyEdgeDetection ==
    /\ \E options \in CannyOptions :
          /\ input' = [kind |-> "cannyEdgeDetection", canvas |-> canvas, options |-> options]
          /\ \E result \in {cannyEdgeDetection(canvas, options)} :
                /\ canvas' = result.canvas
                /\ output' = result.output
    /\ op' = "cannyEdgeDetection"
    /\ UNCHANGED <<sceneWalls, run, app>>

InitCanny ==
    /\ sceneWalls = <<>>
    /\ \E w \in 1..MaxCannyWidth, h \in 1..MaxCannyHeight :
          canvas \in canvasesOf(w, h, CannyColours)
    /\ op = "none"
    /\ input = NoInput
    /\ output = NoOutput
    /\ run = NoRun
    /\ app = NoApp

NextCanny == CannyEdgeDetection

SpecCanny == InitCanny /\ [][NextCanny]_vars

(***************************************************************************)
(* Properties of the Canny edge detection                                  *)
(***************************************************************************)

\* every pixel of the canvas has the same colour
Uniform(cv) == \A p, q \in 1..pixelCount(cv) : cv.data[p] = cv.data[q]

\* C7: cannyEdgeDetection on an image whose pixels all have the same colour
\* fails with the no-edges-detected error and returns no edge mask.
C7_UniformImageNoEdges ==
    (op = "cannyEdgeDetection" /\ Uniform(input.canvas))
    => /\ output = [kind |-> "error", message |-> NoEdgesDetected]
       /\ canvas = input.canvas

\* an all-white 3 x 3 canvas was given to cannyEdgeDetection, which threw
C7_Witness ==
    /\ op = "cannyEdgeDetection"
    /\ input.canvas.width = 3 /\ input.canvas.height = 3
    /\ \A p \in 1..9 : input.canvas.data[p] = <<255, 255, 255, 255>>
    /\ output.kind = "error"


(***************************************************************************)
(* k-means segmentation: src/unnamed/part_001.                             *)
(*                                                                         *)
(* kMeansImageSegmentation runs step by step: the call starts with the     *)
(* k-means++ choice of centroids, every turn of its main loop is one step, *)
(* and the last step writes the segmented image.  A centroid is kept as     *)
(* the exact fraction sum / count of each channel; the palette varies the  *)
(* red channel only, so that every Euclidean distance is rational and the  *)
(* comparisons of the code are decided exactly.                            *)
(***************************************************************************)
MaxKMeansPixels == 5
MaxK == 2
MaxIterations == 2

\* threshold = 1.0, the default of the options
KMeansThreshold == 1

KMeansColours ==
    {<<0, 0, 0, 255>>, <<1, 0, 0, 255>>, <<2, 0, 0, 255>>, <<4, 0, 0, 255>>}

\* pixels.push([data[i], data[i + 1], data[i + 2]])
pixelsOf(cv) ==
    [i \in 1..pixelCount(cv) |->
        <<cv.data[i][1], cv.data[i][2], cv.data[i][3]>>] \o <<>>

\* [...pixels[i]]: a centroid that is a copy of a pixel
centroidAt(pixel) == [sum |-> pixel, count |-> 1]

\* euclideanDistance(v1, v2) squared, as the fraction num / den
squaredDistance(v1, v2) ==
    [num |-> sum([t \in 1..3 |->
                    (v1.sum[t] * v2.count - v2.sum[t] * v1.count)
                  * (v1.sum[t] * v2.count - v2.sum[t] * v1.count)]),
     den |-> (v1.count * v2.count) * (v1.count * v2.count)]

\* The centroids k-means++ can add to the ones chosen.  Math.random() is in
\* [0, 1): the weighted draw is 0 and pixels[0] is taken, or the walk over
\* the distances stops at a pixel whose squared distance to the nearest
\* centroid is positive.
RECURSIVE chooseCentroids(_, _, _)
chooseCentroids(pixels, k, centroids) ==
    LET atCentroid(pixel) ==
            \E i \in 1..Len(centroids) :
                squaredDistance(centroidAt(pixel), centroids[i]).num = 0
        nextIndices ==
            {0} \cup {j \in 0..(Len(pixels) - 1) : ~atCentroid(pixels[j + 1])}
    IN  IF Len(centroids) >= k
        THEN {centroids}
        ELSE UNION {chooseCentroids(pixels, k,
                        Append(centroids, centroidAt(pixels[j + 1])))
                    : j \in nextIndices}

\* every list of centroids initializeCentroidsKMeansPP can return
initializeCentroidsKMeansPP(pixels, k) ==
    UNION {chooseCentroids(pixels, k, <<centroidAt(pixels[firstIndex + 1])>>)
           : firstIndex \in 0..(Len(pixels) - 1)}

\* the first centroid at the least distance (dist < minDist is strict)
closestCluster(pixel, centroids, k) ==
    LET nearer(c1, c2) ==
            With(<<squaredDistance(centroidAt(pixel), c1),
                   squaredDistance(centroidAt(pixel), c2)>>,
                 LAMBDA d : d[1].num * d[2].den < d[2].num * d[1].den)
    IN
    SetMin({j \in 0..(k - 1) :
               \A i \in 0..(k - 1) :
                   ~nearer(centroids[i + 1], centroids[j + 1])})

\* the sum of the members of a cluster over their count; a cluster without
\* members keeps [0, 0, 0]
newCentroid_NotAveraged(pixels, clusters, cluster) ==
    With(SelectIdx([i \in 1..Len(pixels) |-> i] \o <<>>,
                   LAMBDA i : clusters[i] = cluster),
         LAMBDA members :
            [sum |-> [t \in 1..3 |->
                        sum([m \in 1..Len(members) |-> pixels[members[m]][t]])]
                     \o <<>>,
             count |-> 1])

newCentroid(pixels, clusters, cluster) ==
    With(SelectIdx([i \in 1..Len(pixels) |-> i] \o <<>>,
                   LAMBDA i : clusters[i] = cluster),
         LAMBDA members :
            [sum |-> [t \in 1..3 |->
                        sum([m \in 1..Len(members) |-> pixels[members[m]][t]])]
                     \o <<>>,
             count |-> IF members = <<>> THEN 1 ELSE Len(members)])

\* a call that leaves the canvas as it was
segmented_NotWritten(cv, clusters, centroids) == cv

\* centroids[cluster].map(Math.round) in the place of every pixel, the
\* alpha kept
segmented(cv, clusters, centroids) ==
    LET roundFraction(num, den) == (2 * num + den) \div (2 * den)
    IN
    [cv EXCEPT !.data =
        [i \in 1..pixelCount(cv) |->
            With(centroids[clusters[i] + 1],
                 LAMBDA c : <<roundFraction(c.sum[1], c.count),
                              roundFraction(c.sum[2], c.count),
                              roundFraction(c.sum[3], c.count),
                              cv.data[i][4]>>)] \o <<>>]

\* the call begins: options, pixels, centroids, clusters filled with 0
KMeansStart ==
    /\ run = NoRun
    /\ op = "none"
    /\ \E k \in 1..MaxK, maxIterations \in 1..MaxIterations :
         \E centroids \in initializeCentroidsKMeansPP(pixelsOf(canvas), k) :
            /\ run' = [kind |-> "kMeans",
                       pixels |-> pixelsOf(canvas),
                       k |-> k,
                       maxIterations |-> maxIterations,
                       centroids |-> centroids,
                       clusters |-> [i \in 1..pixelCount(canvas) |-> 0] \o <<>>,
                       iterations |-> 0,
                       converged |-> FALSE]
            /\ input' = [k |-> k, maxIterations |-> maxIterations]
    /\ op' = "kMeansImageSegmentation"
    /\ output' = NoOutput
    /\ UNCHANGED <<sceneWalls, canvas, app>>

\* one turn of while (!converged && iterations < maxIterations)
KMeansIterate ==
    /\ run.kind = "kMeans"
    /\ ~run.converged
    /\ run.iterations < run.maxIterations
    /\ \E clusters \in
            {[i \in 1..Len(run.pixels) |->
                 closestCluster(run.pixels[i], run.centroids, run.k)] \o <<>>} :
         \E newCentroids \in
               {[j \in 1..run.k |->
                    newCentroid(run.pixels, clusters, j - 1)] \o <<>>} :
            LET \* euclideanDistance(centroids[i], newCentroids[i]) > threshold
                moved(i) ==
                    With(squaredDistance(run.centroids[i], newCentroids[i]),
                         LAMBDA d :
                            d.num > KMeansThreshold * KMeansThreshold * d.den)
            IN  run' = [run EXCEPT
                          !.clusters = clusters,
                          !.centroids = newCentroids,
                          !.converged = \A i \in 1..run.k : ~moved(i),
                          !.iterations = run.iterations + 1]
    /\ UNCHANGED <<sceneWalls, canvas, op, input, output, app>>

\* the loop is left: the segmented image is put on the canvas
KMeansFinish ==
    /\ run.kind = "kMeans"
    /\ ~(~run.converged /\ run.iterations < run.maxIterations)
    /\ canvas' = segmented(canvas, run.clusters, run.centroids)
    /\ output' = [kind |-> "segmented", iterations |-> run.iterations,
                  converged |-> run.converged]
    /\ run' = NoRun
    /\ UNCHANGED <<sceneWalls, op, input, app>>

InitKMeans ==
    /\ sceneWalls = <<>>
    /\ \E w \in 1..MaxKMeansPixels :
          canvas \in canvasesOf(w, 1, KMeansColours)
    /\ op = "none"
    /\ input = NoInput
    /\ output = NoOutput
    /\ run = NoRun
    /\ app = NoApp

NextKMeans == KMeansStart \/ KMeansIterate \/ KMeansFinish

SpecKMeans == InitKMeans /\ [][NextKMeans]_vars

\* n!: the count of every cluster of n pixels divides it
RECURSIVE factorial(_)
factorial(n) == IF n <= 1 THEN 1 ELSE n * factorial(n - 1)

\* the root of a square
root(n) == CHOOSE d \in 0..n : d * d = n

\* The total intra-cluster distance of the run r, times factorial(n) for
\* the n pixels: the sum over the pixels of the distance to the centroid of
\* the cluster they are assigned to.
totalDistance(r) ==
    sum([i \in 1..Len(r.pixels) |->
            With(r.centroids[r.clusters[i] + 1],
                 LAMBDA c :
                    root(squaredDistance(centroidAt(r.pixels[i]), c).num)
                  * (factorial(Len(r.pixels)) \div c.count))])

\* the same sum of the squared distances, times factorial(n) squared
totalSquaredDistance(r) ==
    sum([i \in 1..Len(r.pixels) |->
            With(r.centroids[r.clusters[i] + 1],
                 LAMBDA c :
                    squaredDistance(centroidAt(r.pixels[i]), c).num
                  * (factorial(Len(r.pixels)) \div c.count)
                  * (factorial(Len(r.pixels)) \div c.count))])

\* a turn of the main loop that follows another turn
NextIteration ==
    /\ run.kind = "kMeans"
    /\ run.iterations >= 1
    /\ run'.kind = "kMeans"
    /\ run'.iterations = run.iterations + 1

\* C11, as stated: the total intra-cluster distance (the sum over the
\* pixels of the distance to the centroid of their cluster) never increases
\* from one iteration to the next.
C11_DistanceNeverIncreases ==
    [][NextIteration => totalDistance(run') <= totalDistance(run)]_vars

\* C11, amended: the total intra-cluster squared distance never increases
\* from one iteration to the next, iterations in which a cluster is empty
\* and its centroid is reset to (0,0,0) included.
C11_SquaredDistanceNeverIncreases ==
    [][NextIteration =>
          totalSquaredDistance(run') <= totalSquaredDistance(run)]_vars

\* a second iteration has run, a cluster is empty with its centroid at
\* (0,0,0), and the pixels are not all at their centroids
C11_Witness ==
    /\ run.kind = "kMeans"
    /\ run.iterations >= 2
    /\ \E j \in 0..(run.k - 1) :
          /\ \A i \in 1..Len(run.pixels) : run.clusters[i] # j
          /\ run.centroids[j + 1] = [sum |-> <<0, 0, 0>>, count |-> 1]
    /\ totalSquaredDistance(run) > 0

(***************************************************************************)
(* The entry points that take a cell size or a kernel size:                *)
(* identifyWalls (src/unnamed/part_003), pixelizeNearest                   *)
(* (src/js/image-processing/pixelize.mjs) and applyMedianFilter            *)
(* (src/unnamed/part_000).                                                 *)
(*                                                                         *)
(* identifyWalls is taken step by step here, one tile of its two loops a   *)
(* step, so that a call that does not leave its loops is seen.            *)
(***************************************************************************)
MaxCellSize == 2

\* the colour that most pixels of the list have, the first seen of them
\* (colors[fs]++ in insertion order, colors[color] > maxCount)
mostCommonCellColor(cellColours) ==
    LET count(c) == Cardinality({i \in 1..Len(cellColours) : cellColours[i] = c})
        first(c) == SetMin({i \in 1..Len(cellColours) : cellColours[i] = c})
    IN CHOOSE c \in Range(cellColours) :
          \A d \in Range(cellColours) :
              \/ count(c) > count(d)
              \/ count(c) = count(d) /\ first(c) <= first(d)

\* pixelizeNearest(canvas, {cellSize}) for cellSize >= 1: every cell is
\* filled with rgba(r, g, b, 1) of its most common colour
pixelizeNearest(cv, cellSize) ==
    LET cell(x, y) ==
            LET startX == (x \div cellSize) * cellSize
                startY == (y \div cellSize) * cellSize
                endX == Min2(startX + cellSize, cv.width)
                endY == Min2(startY + cellSize, cv.height)
            IN [n \in 1..((endX - startX) * (endY - startY)) |->
                   With(cv.data[(startY + (n - 1) \div (endX - startX)) * cv.width
                                + startX + ((n - 1) % (endX - startX)) + 1],
                        LAMBDA px : <<px[1], px[2], px[3]>>)] \o <<>>
    IN [cv EXCEPT !.data =
           [p \in 1..pixelCount(cv) |->
               With(mostCommonCellColor(cell((p - 1) % cv.width,
                                             (p - 1) \div cv.width)),
                    LAMBDA c : <<c[1], c[2], c[3], 255>>)] \o <<>>]

\* a call of pixelizeNearest on the canvas: cellSize < 1 throws
PixelizeNearest ==
    /\ \E cellSize \in (-1)..MaxCellSize :
          /\ input' = [kind |-> "pixelizeNearest", canvas |-> canvas,
                       cellSize |-> cellSize]
          /\ IF cellSize < 1
             THEN /\ canvas' = canvas
                  /\ output' = [kind |-> "error",
                                error |-> "Cell size must be at least 1 pixel"]
             ELSE /\ canvas' = pixelizeNearest(canvas, cellSize)
                  /\ output' = NoOutput
    /\ op' = "pixelizeNearest"
    /\ UNCHANGED <<sceneWalls, run, app>>

\* identifyWalls is called: walls = [], y = 0, x = 0
IdentifyWallsBegin ==
    /\ run = NoRun
    /\ \E grid \in (-1)..MaxGrid, threshold \in Thresholds :
          /\ input' = [kind |-> "identifyWalls", canvas |-> canvas, grid |-> grid,
                       threshold |-> threshold]
          /\ run' = [kind |-> "identifyWalls", grid |-> grid,
                     threshold |-> threshold, x |-> 0, y |-> 0, walls |-> <<>>]
    /\ op' = "identifyWalls"
    /\ output' = NoOutput
    /\ UNCHANGED <<sceneWalls, canvas, app>>

\* one tile of for (x = 0; x < canvas.width; x += grid); a call that has
\* pushed more walls than the canvas has tile edges is not followed further
IdentifyWallsTile ==
    /\ run.kind = "identifyWalls"
    /\ run.y < canvas.height
    /\ run.x < canvas.width
    /\ Len(run.walls) <= 2 * pixelCount(canvas)
    /\ run' = [run EXCEPT
                 !.walls = run.walls \o tileWalls(canvas, run.grid, run.threshold,
                                                  run.x, run.y),
                 !.x = run.x + run.grid]
    /\ UNCHANGED <<sceneWalls, canvas, op, input, output, app>>

\* the row is done: y += grid of for (y = 0; y < canvas.height; y += grid)
IdentifyWallsRow ==
    /\ run.kind = "identifyWalls"
    /\ run.y < canvas.height
    /\ run.x >= canvas.width
    /\ run' = [run EXCEPT !.x = 0, !.y = run.y + run.grid]
    /\ UNCHANGED <<sceneWalls, canvas, op, input, output, app>>

\* return walls
IdentifyWallsReturn ==
    /\ run.kind = "identifyWalls"
    /\ run.y >= canvas.height
    /\ output' = [kind |-> "walls", walls |-> run.walls]
    /\ run' = NoRun
    /\ UNCHANGED <<sceneWalls, canvas, op, input, app>>

InitSizes ==
    /\ sceneWalls = <<>>
    /\ \E w \in 1..MaxOpsWidth, h \in 1..MaxOpsHeight :
          canvas \in canvasesOf(w, h, OpsColours)
    /\ op = "none"
    /\ input = NoInput
    /\ output = NoOutput
    /\ run = NoRun
    /\ app = NoApp

NextSizes ==
    \/ IdentifyWallsBegin
    \/ IdentifyWallsTile
    \/ IdentifyWallsRow
    \/ IdentifyWallsReturn
    \/ run = NoRun /\ PixelizeNearest
    \/ run = NoRun /\ ApplyMedianFilter

SpecSizes == InitSizes /\ [][NextSizes]_vars

\* the size the last call was given
sizeGiven ==
    CASE op = "identifyWalls" -> input.grid
      [] op = "pixelizeNearest" -> input.cellSize
      [] op = "applyMedianFilter" -> input.kernelSize
      [] OTHER -> 1

\* C12: identifyWalls and pixelizeNearest with cellSize <= 0 and
\* applyMedianFilter with kernelSize <= 0 fail fast with an error: the call
\* is not in its loops, it has returned no result and the buffer is as it
\* was.
C12_NonPositiveSizeFailsFast ==
    sizeGiven <= 0 =>
        /\ run = NoRun
        /\ output.kind = "error"
        /\ canvas = input.canvas

\* a finished walk of identifyWalls gives what the whole function gives
SizesWalkAgrees ==
    (op = "identifyWalls" /\ run = NoRun /\ input.grid >= 1) =>
        output.walls = identifyWalls(input.canvas, input.grid, input.threshold)

\* a call of identifyWalls with grid <= 0 does not leave its loops
NonPositiveGridNeverReturns ==
    [](run.kind = "identifyWalls" /\ run.grid <= 0
          => [](run.kind = "identifyWalls"))

(***************************************************************************)
(* The grid configuration of sceneToWalls: src/unnamed/part_005, lines 6   *)
(* to 31.                                                                  *)
(*                                                                         *)
(* The scene gives grid.size, grid.gridX (0 where it has none), width and  *)
(* height; the options give subCellScale (0 where it is not given) and     *)
(* resolutionScale (<<>> where it is not given, <<n>> where it is n).  The *)
(* quotients of the code are compared exactly, as fractions; where the two *)
(* sides of the loop condition are equal as fractions the rounding of the  *)
(* floating-point quotients decides, and both outcomes are taken.          *)
(***************************************************************************)
MaxGridSize == 11
MaxSceneSize == 6
MaxSubCellScale == 3
MaxResolutionScale == 4

\* scene.grid.size || scene.grid.gridX || 100
DefaultGrid == 100

\* resolutionScale defaults to grid / (subCellScale * 7)
CellsPerScale == 7

NaN == "NaN"

offGrid_Never(grid, resolutionScale, subCellScale, w, h) == FALSE

\* (grid / (resolutionScale * subCellScale)) % 1
\*     > 1 / Math.max(w * subCellScale / grid, h * subCellScale / grid)
offGrid(grid, resolutionScale, subCellScale, w, h) ==
    (grid % (resolutionScale * subCellScale)) * subCellScale * Max2(w, h)
        > grid * resolutionScale * subCellScale

\* the two sides of the comparison are equal as fractions
roundingDecides(grid, resolutionScale, subCellScale, w, h) ==
    (grid % (resolutionScale * subCellScale)) * subCellScale * Max2(w, h)
        = grid * resolutionScale * subCellScale

\* sceneToWalls is called: grid, w, h, subCellScale and the first
\* resolutionScale
GridBegin ==
    /\ run = NoRun
    /\ op = "none"
    /\ \E size \in 0..MaxGridSize, gridX \in {0, MaxGridSize},
          w \in 1..MaxSceneSize, h \in 1..MaxSceneSize,
          subCellScaleGiven \in 0..MaxSubCellScale,
          resolutionScaleGiven \in
              {<<>>} \cup {<<n>> : n \in 0..MaxResolutionScale} :
          LET \* scene.grid.size || scene.grid.gridX || 100
              grid == IF size # 0 THEN size
                      ELSE IF gridX # 0 THEN gridX
                      ELSE DefaultGrid
              \* Math.max(options.subCellScale || 1, 1)
              subCellScale ==
                  Max2(IF subCellScaleGiven # 0 THEN subCellScaleGiven ELSE 1, 1)
              \* Math.round(Math.max(options.resolutionScale
              \*                         ?? (grid / (subCellScale * 7)), 1))
              resolutionScale ==
                  IF resolutionScaleGiven # <<>>
                  THEN Max2(resolutionScaleGiven[1], 1)
                  ELSE IF grid <= subCellScale * CellsPerScale
                       THEN 1
                       ELSE (2 * grid + subCellScale * CellsPerScale)
                                \div (2 * subCellScale * CellsPerScale)
          IN  /\ size # 0 => gridX = 0
              /\ input' = [kind |-> "sceneToWalls",
                           scene |-> [grid |-> [size |-> size, gridX |-> gridX],
                                      width |-> w, height |-> h],
                           options |-> [subCellScale |-> subCellScaleGiven,
                                        resolutionScale |-> resolutionScaleGiven]]
              /\ run' = [kind |-> "gridConfiguration",
                         grid |-> grid,
                         w |-> w,
                         h |-> h,
                         subCellScale |-> subCellScale,
                         resolutionScale |-> resolutionScale,
                         adjusted |-> 0]
    /\ op' = "sceneToWalls"
    /\ output' = NoOutput
    /\ UNCHANGED <<sceneWalls, canvas, app>>

\* one turn of the loop: resolutionScale -= 1
GridAdjust ==
    /\ run.kind = "gridConfiguration"
    /\ run.resolutionScale > 1
    /\ \/ offGrid(run.grid, run.resolutionScale, run.subCellScale, run.w, run.h)
       \/ roundingDecides(run.grid, run.resolutionScale, run.subCellScale,
                          run.w, run.h)
    /\ run' = [run EXCEPT !.resolutionScale = run.resolutionScale - 1,
                          !.adjusted = run.adjusted + 1]
    /\ UNCHANGED <<sceneWalls, canvas, op, input, output, app>>

\* the loop is left: the closure returns cellSize, the image size and the
\* map size; a division by cellSize = 0 gives NaN
GridEnd ==
    /\ run.kind = "gridConfiguration"
    /\ ~(/\ run.resolutionScale > 1
         /\ offGrid(run.grid, run.resolutionScale, run.subCellScale,
                    run.w, run.h))
    /\ LET cellSize == run.grid \div (run.resolutionScale * run.subCellScale)
           imgWidth == run.w \div run.resolutionScale
           imgHeight == run.h \div run.resolutionScale
       IN  output' = [kind |-> "gridConfiguration",
                      grid |-> run.grid,
                      subCellScale |-> run.subCellScale,
                      adjusted |-> run.adjusted,
                      configuration |->
                          [width |-> IF cellSize = 0 THEN NaN
                                     ELSE (imgWidth \div cellSize) * cellSize,
                           height |-> IF cellSize = 0 THEN NaN
                                      ELSE (imgHeight \div cellSize) * cellSize,
                           cellSize |-> cellSize,
                           imgWidth |-> imgWidth,
                           imgHeight |-> imgHeight,
                           resolutionScale |-> run.resolutionScale]]
    /\ run' = NoRun
    /\ UNCHANGED <<sceneWalls, canvas, op, input, app>>

InitGrid ==
    /\ sceneWalls = <<>>
    /\ canvas = NoCanvas
    /\ op = "none"
    /\ input = NoInput
    /\ output = NoOutput
    /\ run = NoRun
    /\ app = NoApp

NextGrid == GridBegin \/ GridAdjust \/ GridEnd

SpecGrid == InitGrid /\ [][NextGrid]_vars

\* the loop of the grid configuration is left in the end
FairGrid == SpecGrid /\ WF_vars(GridAdjust) /\ WF_vars(GridEnd)

GridLoopTerminates ==
    (run.kind = "gridConfiguration") ~> (output.kind = "gridConfiguration")

\* C13: for every scene with grid size, width and height >= 1 and every
\* value of the options, the grid configuration has resolutionScale >= 1
\* and a cellSize that is a positive integer.
C13_CellSizePositive ==
    (output.kind = "gridConfiguration" /\ input.scene.grid.size >= 1) =>
        /\ output.configuration.resolutionScale >= 1
        /\ output.configuration.cellSize >= 1

MaxRuns == 2
MaxNotifications == 3

\* the lists of walls a call of sceneToWalls returns
WallLists == {<<(<<0, 0, 2, 0>>)>>}

\* the async functions called without await
Unawaited == {"separateInside", "applyWithOp(lighten)", "applyBrightenFilter(3)"}

sceneToWallsStages_ExtractionFirst(options) ==
    <<"gridConfiguration", "imageToCanvas", "getImageData",
      "kMeansImageSegmentation">>
    \o (IF options.pixelize
        THEN <<"separateInside", "applyMedianFilter(5)", "pixelizeNearest">>
        ELSE <<>>)
    \o (IF options.edgeDetection
        THEN <<"kovalevskiyEdgeDetection(thinning: false)", "applyMedianFilter(3)">>
        ELSE <<>>)
    \o <<"identifyWalls">>
    \o (IF options.internalWalls
        THEN <<"newCanvas", "kovalevskiyEdgeDetection(thinning: true)",
               "applyWithOp(lighten)", "applyBrightenFilter(3)">>
        ELSE <<>>)
    \o (IF ~options.nowalls THEN <<"putImageData", "drawWalls">> ELSE <<>>)
    \o (IF options.canvas THEN <<"drawImage">> ELSE <<>>)

\* the calls sceneToWalls makes for the options, in the order of its lines
sceneToWallsStages(options) ==
    <<"gridConfiguration", "imageToCanvas", "getImageData",
      "kMeansImageSegmentation">>
    \o (IF options.pixelize
        THEN <<"separateInside", "applyMedianFilter(5)", "pixelizeNearest">>
        ELSE <<>>)
    \o (IF options.edgeDetection
        THEN <<"kovalevskiyEdgeDetection(thinning: false)", "applyMedianFilter(3)">>
        ELSE <<>>)
    \o (IF options.internalWalls
        THEN <<"newCanvas", "kovalevskiyEdgeDetection(thinning: true)",
               "applyWithOp(lighten)", "applyBrightenFilter(3)">>
        ELSE <<>>)
    \o <<"identifyWalls">>
    \o (IF ~options.nowalls THEN <<"putImageData", "drawWalls">> ELSE <<>>)
    \o (IF options.canvas THEN <<"drawImage">> ELSE <<>>)

\* a call of sceneToWalls that has computed its grid configuration and
\* awaits imageToCanvas
startedCall(owner, options) ==
    [owner |-> owner, options |-> options, status |-> "loading",
     at |-> 1, done |-> <<"gridConfiguration">>, thrown |-> <<>>]

\* The ways a call can go on from its stage at + 1 to its end.  A stage
\* completes or throws; the promise of an async function that was not
\* awaited is rejected without a handler and the call goes on, any other
\* throw rejects the call.
RECURSIVE resumed(_)
resumed(call) ==
    IF call.at = Len(sceneToWallsStages(call.options))
    THEN {[call EXCEPT !.status = "resolved"]}
    ELSE LET stage == sceneToWallsStages(call.options)[call.at + 1]
         IN  resumed([call EXCEPT !.at = call.at + 1,
                                  !.done = Append(call.done, stage)])
             \cup
             (IF stage \in Unawaited
              THEN resumed([call EXCEPT !.at = call.at + 1,
                                       !.thrown = Append(call.thrown, stage)])
              ELSE {[call EXCEPT !.status = "rejected",
                                 !.thrown = Append(call.thrown, stage)]})

\* the window after a call of generate has ended: then keeps the walls in
\* this.walls, catch reports the error
settled(window, i, call, walls) ==
    IF call.owner # "app" THEN window
    ELSE IF call.status = "resolved"
         THEN [window EXCEPT !.walls = <<[run |-> i, walls |-> walls]>>]
         ELSE [window EXCEPT !.notifications =
                  Append(window.notifications,
                         [run |-> i, error |-> "Error generating walls"])]

\* generate: this.walls = null and sceneToWalls(this.scene, {canvas, k,
\* threshold, internalWalls}) with .then and .catch; the debug options keep
\* their defaults
generated(window, hasCanvas) ==
    startedCall("app",
        [canvas |-> hasCanvas, internalWalls |-> window.internalWalls,
         nowalls |-> FALSE, edgeDetection |-> TRUE, pixelize |-> TRUE])

\* onClick: new AutoWallsApplication(canvas.scene).render(true); the first
\* render calls generate
OpenWindow ==
    /\ app = NoApp
    /\ Len(run) < MaxRuns
    /\ \E hasCanvas \in BOOLEAN :
         \E window \in {[kind |-> "AutoWallsApplication", walls |-> <<>>, k |-> 3,
                         threshold |-> 32, internalWalls |-> FALSE,
                         notifications |-> <<>>, closed |-> FALSE]} :
            /\ app' = window
            /\ run' = Append(run, generated(window, hasCanvas))
    /\ UNCHANGED <<sceneWalls, canvas, op, input, output>>

\* the generate action of the window
Generate ==
    /\ app # NoApp
    /\ ~app.closed
    /\ Len(run) < MaxRuns
    /\ \E hasCanvas \in BOOLEAN :
          run' = Append(run, generated(app, hasCanvas))
    /\ app' = [app EXCEPT !.walls = <<>>]
    /\ UNCHANGED <<sceneWalls, canvas, op, input, output>>

\* onSubmit: the form changes internalWalls (k and threshold are kept)
Submit ==
    /\ app # NoApp
    /\ ~app.closed
    /\ app' = [app EXCEPT !.internalWalls = ~app.internalWalls]
    /\ UNCHANGED <<sceneWalls, canvas, run, op, input, output>>

\* sceneToWalls called by a script, with any options
CallSceneToWalls ==
    /\ run = <<>>
    /\ \E options \in [canvas : BOOLEAN, internalWalls : BOOLEAN, nowalls : BOOLEAN,
                       edgeDetection : BOOLEAN, pixelize : BOOLEAN] :
          run' = Append(run, startedCall("script", options))
    /\ UNCHANGED <<sceneWalls, canvas, app, op, input, output>>

\* the image of a call is loaded: the call runs to its end
ImageLoads ==
    \E i \in 1..Len(run) :
        /\ run[i].status = "loading"
        /\ \E call \in resumed([run[i] EXCEPT
                                  !.status = "running",
                                  !.at = run[i].at + 1,
                                  !.done = Append(run[i].done, "imageToCanvas")]),
              walls \in WallLists :
              /\ run' = [run EXCEPT ![i] = call]
              /\ app' = settled(app, i, call, walls)
        /\ UNCHANGED <<sceneWalls, canvas, op, input, output>>

\* imageToCanvas throws: no image, or it cannot be loaded
ImageFails ==
    \E i \in 1..Len(run) :
        /\ run[i].status = "loading"
        /\ \E call \in {[run[i] EXCEPT
                             !.status = "rejected",
                             !.thrown = Append(run[i].thrown, "imageToCanvas")]} :
              /\ run' = [run EXCEPT ![i] = call]
              /\ app' = settled(app, i, call, <<>>)
        /\ UNCHANGED <<sceneWalls, canvas, op, input, output>>

\* the apply action of the window
Apply ==
    /\ app # NoApp
    /\ ~app.closed
    /\ Len(app.notifications) < MaxNotifications
    /\ input' = [kind |-> "apply", walls |-> app.walls,
                 sceneWalls |-> sceneWalls]
    /\ IF app.walls = <<>>
       THEN /\ app' = [app EXCEPT !.notifications =
                          Append(app.notifications,
                                 [run |-> 0, error |-> "No walls generated yet"])]
            /\ sceneWalls' = sceneWalls
       ELSE LET kept == SelectIdx(sceneWalls, LAMBDA w : ~w.auto)
                walls == app.walls[1].walls
                ids == freshIds(kept, Len(walls))
            IN  /\ sceneWalls' =
                       kept \o [n \in 1..Len(walls) |-> createdWall(ids[n], walls[n])]
                /\ app' = [app EXCEPT !.closed = TRUE]
    /\ op' = "apply"
    /\ output' = NoOutput
    /\ UNCHANGED <<canvas, run>>

\* the scene has a wall drawn by the user and a wall of an earlier apply
InitApp ==
    /\ sceneWalls = <<[createdWall(1, <<0, 0, 0, 1>>) EXCEPT !.auto = FALSE],
                      createdWall(2, <<0, 0, 1, 0>>)>>
    /\ canvas = NoCanvas
    /\ op = "none"
    /\ input = NoInput
    /\ output = NoOutput
    /\ run = <<>>
    /\ app = NoApp

NextApp ==
    \/ OpenWindow
    \/ Generate
    \/ Submit
    \/ ImageLoads
    \/ ImageFails
    \/ Apply

SpecApp == InitApp /\ [][NextApp]_vars

NextPipeline == CallSceneToWalls \/ ImageLoads \/ ImageFails

SpecPipeline == InitApp /\ [][NextPipeline]_vars

\* the stages the control flow of the pipeline is described by, numbered in
\* the order that has the grid wall extraction before the internal-wall pass
extractionBeforeInternalPass ==
    [s \in {"gridConfiguration", "imageToCanvas", "getImageData",
            "kMeansImageSegmentation", "separateInside", "applyMedianFilter(5)",
            "pixelizeNearest", "kovalevskiyEdgeDetection(thinning: false)",
            "applyMedianFilter(3)", "identifyWalls", "newCanvas",
            "kovalevskiyEdgeDetection(thinning: true)", "applyWithOp(lighten)",
            "applyBrightenFilter(3)"} |->
        CASE s = "gridConfiguration" -> 1
          [] s \in {"imageToCanvas", "getImageData"} -> 2
          [] s = "kMeansImageSegmentation" -> 3
          [] s \in {"separateInside", "applyMedianFilter(5)", "pixelizeNearest"} -> 4
          [] s \in {"kovalevskiyEdgeDetection(thinning: false)",
                    "applyMedianFilter(3)"} -> 5
          [] s = "identifyWalls" -> 6
          [] OTHER -> 7]

\* the same stages with the internal-wall pass before the extraction
internalPassBeforeExtraction ==
    [s \in DOMAIN extractionBeforeInternalPass |->
        CASE extractionBeforeInternalPass[s] = 6 -> 7
          [] extractionBeforeInternalPass[s] = 7 -> 6
          [] OTHER -> extractionBeforeInternalPass[s]]

\* the numbered stages of the list come in the order of their numbers, and
\* the wall merger is not among the stages
inOrder(stages, number) ==
    /\ \A i \in 1..Len(stages), j \in 1..Len(stages) :
          (i < j /\ stages[i] \in DOMAIN number /\ stages[j] \in DOMAIN number)
              => number[stages[i]] <= number[stages[j]]
    /\ \A i \in 1..Len(stages) : stages[i] # "combineSceneWalls"

\* C15, as stated: in every pipeline run the stages execute in the order
\* grid parameters, image, segmentation, denoising and pixelization, edge
\* detection, grid wall extraction and only then the internal-wall pass; the
\* wall merger is never invoked by the pipeline.
C15_ExtractionBeforeInternalPass ==
    \A i \in 1..Len(run) : inOrder(run[i].done, extractionBeforeInternalPass)

\* C15, amended: in every pipeline run the stages execute in the order grid
\* parameters, image, segmentation, denoising and pixelization, edge
\* detection, the internal-wall pass and only then the grid wall extraction;
\* the wall merger is never invoked by the pipeline.
C15_InternalPassBeforeExtraction ==
    \A i \in 1..Len(run) : inOrder(run[i].done, internalPassBeforeExtraction)

\* a run with every optional stage has returned
C15_Witness ==
    \E i \in 1..Len(run) :
        /\ run[i].status = "resolved"
        /\ run[i].thrown = <<>>
        /\ {"pixelizeNearest", "applyWithOp(lighten)", "identifyWalls"}
              \subseteq Range(run[i].done)

\* C16: when a stage of a generation run throws, the run is aborted as a
\* whole: one error is reported for it, no wall list becomes available from
\* it and its preview is not drawn; while every run had a stage that threw,
\* walls stays null, and an apply then creates and deletes no walls.
C16_ThrowAbortsRun ==
    /\ \A i \in 1..Len(run) :
          (run[i].owner = "app" /\ run[i].thrown # <<>>) =>
              /\ run[i].status = "rejected"
              /\ Cardinality({n \in 1..Len(app.notifications) :
                                 app.notifications[n].run = i}) = 1
              /\ "drawImage" \notin Range(run[i].done)
              /\ app.walls = <<>> \/ app.walls[1].run # i
    /\ (/\ app # NoApp
        /\ \A i \in 1..Len(run) : run[i].thrown # <<>>) => app.walls = <<>>
    /\ (op = "apply" /\ input.walls = <<>>) => sceneWalls = input.sceneWalls

(***************************************************************************)
(* Properties of removeSmallRegions: the regions that are repainted        *)
(***************************************************************************)

\* the pixels next to the region that are not of it
bordering(cv, region) ==
    {q \in 0..(pixelCount(cv) - 1) :
        q \notin region /\ \E r \in region : adjacent(cv, q, r)}

\* the colours that most of the bordering pixels of the region have
mostFrequentBorderColours(cv, includeAlpha, region) ==
    LET borders == bordering(cv, region)
        frequency(key) ==
            Cardinality({q \in borders : getColorKey(cv, q, includeAlpha) = key})
        keys == {getColorKey(cv, q, includeAlpha) : q \in borders}
    IN {key \in keys : \A other \in keys : frequency(key) >= frequency(other)}

\* C17: removeSmallRegions repaints every 4-connected same-colour region of
\* the original image that has at most maxRegionSize pixels and touches a
\* pixel of another colour with the most frequent colour among its bordering
\* pixels (any of them on a tie), wherever the region lies in the scan
\* order.
C17_EverySmallRegionRepainted ==
    op = "removeSmallRegions" =>
        \A p \in 0..(pixelCount(input.canvas) - 1) :
            LET region == regionOf(input.canvas, input.includeAlpha, {p})
            IN (/\ Cardinality(region) <= input.maxRegionSize
                /\ bordering(input.canvas, region) # {})
               => getColorKey(canvas, p, input.includeAlpha)
                     \in mostFrequentBorderColours(input.canvas,
                                                   input.includeAlpha, region)

(***************************************************************************)
(* Small-hole removal: removeSmallHoles (remove-holes.mjs)                 *)
(*                                                                         *)
(* Pixels are named by idx = y * width + x, the code's index into holeMask *)
(* and processed.                                                          *)
(***************************************************************************)

\* the largest canvas and the largest maxHoleSize given to removeSmallHoles
MaxHoleWidth == 3

MaxHoleHeight == 2

MaxHoleSize == 4

HoleColours == {<<0, 0, 0, 255>>, <<90, 90, 90, 255>>, <<255, 255, 255, 128>>}

HoleThresholds == {50, 100}

\* holeMask: the pixels with (r + g + b) / 3 < threshold
holeMask(cv, threshold) ==
    {idx \in 0..(pixelCount(cv) - 1) :
        cv.data[idx + 1][1] + cv.data[idx + 1][2] + cv.data[idx + 1][3] < 3 * threshold}

\* the i-th neighbour of the hole pixel taken from the queue: an unprocessed
\* hole pixel is queued, a pixel outside the mask is pushed to borderPixels
holeNeighbour(cv, mask, current, i, st) ==
    LET nx == (current % cv.width) + neighbourOffsets[i][1]
        ny == (current \div cv.width) + neighbourOffsets[i][2]
        neighborIdx == ny * cv.width + nx
    IN IF nx < 0 \/ nx >= cv.width \/ ny < 0 \/ ny >= cv.height THEN st
       ELSE IF neighborIdx \in mask /\ neighborIdx \notin st.processed
            THEN [st EXCEPT !.queue = Append(@, neighborIdx),
                            !.processed = @ \cup {neighborIdx}]
       ELSE IF neighborIdx \notin mask
            THEN [st EXCEPT !.borderPixels = Append(@, neighborIdx)]
       ELSE st

\* the while loop over the queue: holePixels and borderPixels of the
\* connected hole region
RECURSIVE holeRegion(_, _, _)
holeRegion(cv, mask, st) ==
    IF st.queue = <<>> THEN st
    ELSE With(Head(st.queue), LAMBDA current :
         With([st EXCEPT !.queue = Tail(@), !.holePixels = Append(@, current)], LAMBDA s0 :
         With(holeNeighbour(cv, mask, current, 1, s0), LAMBDA s1 :
         With(holeNeighbour(cv, mask, current, 2, s1), LAMBDA s2 :
         With(holeNeighbour(cv, mask, current, 3, s2), LAMBDA s3 :
             holeRegion(cv, mask, holeNeighbour(cv, mask, current, 4, s3)))))))

\* the data with the hole filled by the average colour of borderPixels, each
\* entry of the array counted; Math.round of a quotient that is not negative
filled(data, st, maxHoleSize) ==
    IF Len(st.holePixels) < maxHoleSize /\ Len(st.borderPixels) > 0
    THEN LET n == Len(st.borderPixels)
             S[k \in 0..n] ==
                 IF k = 0 THEN <<0, 0, 0>>
                 ELSE <<S[k - 1][1] + data[st.borderPixels[k] + 1][1],
                        S[k - 1][2] + data[st.borderPixels[k] + 1][2],
                        S[k - 1][3] + data[st.borderPixels[k] + 1][3]>>
             round(total) == (2 * total + n) \div (2 * n)
             colour == <<round(S[n][1]), round(S[n][2]), round(S[n][3])>>
         IN [p \in 1..Len(data) |->
                IF \E k \in 1..Len(st.holePixels) : st.holePixels[k] = p - 1
                THEN <<colour[1], colour[2], colour[3], data[p][4]>>
                ELSE data[p]] \o <<>>
    ELSE data

\* the canvas after removeSmallHoles: the scan of the pixels row by row
removeSmallHoles(cv, maxHoleSize, threshold) ==
    With(holeMask(cv, threshold), LAMBDA mask :
        LET F[k \in 0..pixelCount(cv)] ==
                IF k = 0 THEN [processed |-> {}, data |-> cv.data]
                ELSE With(F[k - 1], LAMBDA acc :
                         IF (k - 1) \notin mask \/ (k - 1) \in acc.processed THEN acc
                         ELSE With(holeRegion(cv, mask,
                                       [queue |-> <<k - 1>>,
                                        processed |-> acc.processed \cup {k - 1},
                                        holePixels |-> <<>>, borderPixels |-> <<>>]),
                                   LAMBDA st :
                                   [processed |-> st.processed,
                                    data |-> filled(acc.data, st, maxHoleSize)]))
        IN [cv EXCEPT !.data = F[pixelCount(cv)].data])

\* a call of removeSmallHoles on the canvas
RemoveSmallHoles ==
    /\ \E maxHoleSize \in 1..MaxHoleSize, threshold \in HoleThresholds :
          /\ input' = [kind |-> "removeSmallHoles", canvas |-> canvas,
                       maxHoleSize |-> maxHoleSize, threshold |-> threshold]
          /\ \E r \in {removeSmallHoles(canvas, maxHoleSize, threshold)} : canvas' = r
    /\ output' = NoOutput
    /\ op' = "removeSmallHoles"
    /\ UNCHANGED <<sceneWalls, run, app>>

InitHoles ==
    /\ sceneWalls = <<>>
    /\ \E w \in 1..MaxHoleWidth, h \in 1..MaxHoleHeight :
          canvas \in canvasesOf(w, h, HoleColours)
    /\ op = "none"
    /\ input = NoInput
    /\ output = NoOutput
    /\ run = NoRun
    /\ app = NoApp

NextHoles == RemoveSmallHoles

SpecHoles == InitHoles /\ [][NextHoles]_vars

(***************************************************************************)
(* Properties of the small-hole removal                                    *)
(***************************************************************************)

\* the 4-connected component of dark pixels that holds the pixels of set
RECURSIVE darkComponent(_, _, _)
darkComponent(cv, mask, set) ==
    LET next == set \cup {q \in mask : \E r \in set : adjacent(cv, q, r)}
    IN IF next = set THEN set ELSE darkComponent(cv, mask, next)

\* the distinct pixels outside the mask that are 4-adjacent to the component
borderOf(cv, mask, component) ==
    {q \in 0..(pixelCount(cv) - 1) :
        q \notin mask /\ \E r \in component : adjacent(cv, q, r)}

RECURSIVE channelSum(_, _, _)
channelSum(cv, set, c) ==
    IF set = {} THEN 0
    ELSE LET q == CHOOSE x \in set : TRUE
         IN cv.data[q + 1][c] + channelSum(cv, set \ {q}, c)

\* the rounded average of the channel c over the pixels of set
roundedAverage(cv, set, c) ==
    (2 * channelSum(cv, set, c) + Cardinality(set)) \div (2 * Cardinality(set))

\* the pixel p keeps its alpha, and keeps its colour unless it lies in a
\* dark component smaller than maxHoleSize
keptByRemoveSmallHoles(p) ==
    LET mask == holeMask(input.canvas, input.threshold)
    IN /\ canvas.data[p + 1][4] = input.canvas.data[p + 1][4]
       /\ (p \notin mask
             \/ Cardinality(darkComponent(input.canvas, mask, {p})) >= input.maxHoleSize)
          => canvas.data[p + 1] = input.canvas.data[p + 1]

\* C18: removeSmallHoles gives every pixel of a 4-connected dark component
\* with fewer than maxHoleSize pixels the rounded average RGB of the
\* distinct non-dark pixels 4-adjacent to the component, each counted once;
\* alpha, non-dark pixels and larger dark components stay as they were.
C18_HoleTakesAverageOfDistinctBorder ==
    op = "removeSmallHoles" =>
        \A p \in 0..(pixelCount(input.canvas) - 1) :
            LET mask == holeMask(input.canvas, input.threshold)
                component == darkComponent(input.canvas, mask, {p})
                border == borderOf(input.canvas, mask, component)
            IN /\ keptByRemoveSmallHoles(p)
               /\ (p \in mask /\ Cardinality(component) < input.maxHoleSize /\ border # {})
                  => \A c \in 1..3 :
                        canvas.data[p + 1][c] = roundedAverage(input.canvas, border, c)

\* the part of C18 about what is left unchanged
HolesKeepTheRest ==
    op = "removeSmallHoles" =>
        \A p \in 0..(pixelCount(input.canvas) - 1) : keptByRemoveSmallHoles(p)

(***************************************************************************)
(* Properties of the reads of identifyWalls at the image borders           *)
(***************************************************************************)

\* the coordinate v brought into 0 .. size - 1
clamped(v, size) == Max2(0, Min2(v, size - 1))

\* the pixel (sx, sy), with both coordinates clamped into the image, reaches
\* the threshold
clampedAtLeast(cv, sx, sy, threshold) ==
    cv.data[clamped(sy, cv.height) * cv.width + clamped(sx, cv.width) + 1][1] >= threshold

\* the walls of the tile at (x, y) when every sample is read at its clamped
\* coordinates: row y and row y - 1 for the horizontal run, column x and
\* column x - 1 for the vertical run
clampedTileWalls(cv, grid, threshold, x, y) ==
    LET F[n \in 0..grid] ==
            IF n = 0
            THEN [horizontal |-> 0, mhorizontal |-> 0, vertical |-> 0, mvertical |-> 0]
            ELSE With(F[n - 1], LAMBDA t :
                 With(n - 1, LAMBDA i :
                 LET h == clampedAtLeast(cv, x + i, y, threshold)
                            \/ clampedAtLeast(cv, x + i, y - 1, threshold)
                     v == clampedAtLeast(cv, x, y + i, threshold)
                            \/ clampedAtLeast(cv, x - 1, y + i, threshold)
                 IN [horizontal  |-> IF h THEN t.horizontal + 1 ELSE 0,
                     mhorizontal |-> IF h THEN Max2(t.mhorizontal, t.horizontal + 1)
                                          ELSE t.mhorizontal,
                     vertical    |-> IF v THEN t.vertical + 1 ELSE 0,
                     mvertical   |-> IF v THEN Max2(t.mvertical, t.vertical + 1)
                                          ELSE t.mvertical]))
    IN (IF longRun(F[grid].mhorizontal, grid) THEN <<(<<x, y, x + grid, y>>)>> ELSE <<>>)
       \o (IF longRun(F[grid].mvertical, grid) THEN <<(<<x, y, x, y + grid>>)>> ELSE <<>>)

\* the walls of all tiles, row by row, with clamped reads
clampedWalls(cv, grid, threshold) ==
    LET xs == origins(cv.width, grid)
        ys == origins(cv.height, grid)
        Row[r \in 1..Len(ys)] ==
            LET G[k \in 0..Len(xs)] ==
                    IF k = 0 THEN <<>>
                    ELSE G[k - 1] \o clampedTileWalls(cv, grid, threshold, xs[k], ys[r])
            IN G[Len(xs)]
        All[r \in 0..Len(ys)] == IF r = 0 THEN <<>> ELSE All[r - 1] \o Row[r]
    IN All[Len(ys)]

\* C19: identifyWalls reads at the image borders with the sample coordinates
\* clamped into the image: the walls it returns are those of the tile's own
\* row / column and the outward-adjacent row / column clamped, never those
\* of a pixel of another row reached by index wrap-around.
C19_BorderReadsClamped ==
    op = "identifyWalls" =>
        output.walls = clampedWalls(input.canvas, input.grid, input.threshold)

\* the consequence C19 names: with no bright pixel in column 0 of an image
\* at least two pixels wide, no vertical segment lies at x = 0
NoWallFromWrappedColumn ==
    (op = "identifyWalls"
        /\ input.canvas.width >= 2
        /\ \A y \in 0..(input.canvas.height - 1) :
              input.canvas.data[y * input.canvas.width + 1][1] < input.threshold)
    => \A k \in 1..Len(output.walls) :
          ~(output.walls[k][1] = 0 /\ output.walls[k][3] = 0)

(***************************************************************************)
(* Kovalevsky edge extraction: applyEdgeExtraction and applyEdgeThinning   *)
(* (kovalevskiy.mjs)                                                       *)
(*                                                                         *)
(* The gradient magnitude is a single-channel image [width, height, data]; *)
(* an edge map is a sequence of 0 and 1, the pixel idx = y * width + x at  *)
(* position idx + 1.                                                       *)
(***************************************************************************)

\* the largest gradient image given to applyEdgeExtraction
MaxEdgeWidth == 4

MaxEdgeHeight == 3

\* the threshold kovalevskiyEdgeDetection defaults to
EdgeThreshold == 25

\* const iterations = 10
ThinningIterations == 10

\* isRemovable(p, phase) on the edge map result
isRemovable(result, width, height, p, phase) ==
    LET x == p % width
        y == p \div width
        at(ax, ay) == result[ay * width + ax + 1]
        p2 == at(x, y - 1)
        p3 == at(x + 1, y - 1)
        p4 == at(x + 1, y)
        p5 == at(x + 1, y + 1)
        p6 == at(x, y + 1)
        p7 == at(x - 1, y + 1)
        p8 == at(x - 1, y)
        p9 == at(x - 1, y - 1)
        neighbors == <<p2, p3, p4, p5, p6, p7, p8, p9>>
        transitions ==
            Cardinality({i \in 1..7 : neighbors[i] = 0 /\ neighbors[i + 1] = 1})
            + (IF neighbors[8] = 0 /\ neighbors[1] = 1 THEN 1 ELSE 0)
        nonZeroNeighbors == Cardinality({i \in 1..8 : neighbors[i] = 1})
    IN IF x = 0 \/ y = 0 \/ x = width - 1 \/ y = height - 1 THEN FALSE
       ELSE IF result[p + 1] # 1 THEN FALSE
       ELSE IF phase = 0
            THEN /\ transitions = 1
                 /\ nonZeroNeighbors >= 2 /\ nonZeroNeighbors <= 6
                 /\ p2 * p4 * p6 = 0
                 /\ p4 * p6 * p8 = 0
            ELSE /\ transitions = 1
                 /\ nonZeroNeighbors >= 2 /\ nonZeroNeighbors <= 6
                 /\ p2 * p4 * p8 = 0
                 /\ p2 * p6 * p8 = 0

\* applyEdgeThinning: in each iteration the pixels removable in phase 1 are
\* marked and then cleared, then those of phase 2, until an iteration marks
\* nothing or the iterations are used up
applyEdgeThinning(edges, width, height) ==
    LET marked(result, phase) ==
            {p \in 0..(Len(result) - 1) : isRemovable(result, width, height, p, phase)}
        cleared(result, temp) ==
            [p \in 1..Len(result) |-> IF (p - 1) \in temp THEN 0 ELSE result[p]] \o <<>>
        F[n \in 0..ThinningIterations] ==
            IF n = 0 THEN [result |-> edges, changed |-> TRUE]
            ELSE With(F[n - 1], LAMBDA before :
                 IF ~before.changed THEN before
                 ELSE With(marked(before.result, 0), LAMBDA temp1 :
                      With(cleared(before.result, temp1), LAMBDA afterPhase1 :
                      With(marked(afterPhase1, 1), LAMBDA temp2 :
                          [result |-> cleared(afterPhase1, temp2),
                           changed |-> temp1 # {} \/ temp2 # {}]))))
    IN F[ThinningIterations].result

\* a pixel with at least one edge neighbour counts as strong
strong_OneNeighbour(edges, width, height, idx) ==
    /\ edges[idx + 1] = 1
    /\ Cardinality({i \in 1..8 : /\ edgeNeighbour(width, height, idx, i) >= 0
                                 /\ edges[edgeNeighbour(width, height, idx, i) + 1] = 1}) >= 1

\* a strong edge point: an edge pixel with edgeNeighbors >= 2
strong(edges, width, height, idx) ==
    /\ edges[idx + 1] = 1
    /\ Cardinality({i \in 1..8 : /\ edgeNeighbour(width, height, idx, i) >= 0
                                 /\ edges[edgeNeighbour(width, height, idx, i) + 1] = 1}) >= 2

\* the while loop of traceEdge: the top of the stack is popped, and each of
\* its neighbours that is an unvisited edge pixel is marked and pushed
RECURSIVE traceEdge(_, _, _, _)
traceEdge(edges, width, height, st) ==
    IF st.stack = <<>> THEN st
    ELSE With(st.stack[Len(st.stack)], LAMBDA current :
         LET G[i \in 0..8] ==
                 IF i = 0 THEN [st EXCEPT !.stack = SubSeq(@, 1, Len(@) - 1)]
                 ELSE With(G[i - 1], LAMBDA s :
                      With(edgeNeighbour(width, height, current, i), LAMBDA neighborIdx :
                          IF /\ neighborIdx >= 0
                             /\ neighborIdx \notin s.visited
                             /\ edges[neighborIdx + 1] = 1
                          THEN [stack |-> Append(s.stack, neighborIdx),
                                finalEdges |-> s.finalEdges \cup {neighborIdx},
                                visited |-> s.visited \cup {neighborIdx}]
                          ELSE s))
         IN traceEdge(edges, width, height, G[8]))

\* the hysteresis of applyEdgeExtraction on the edge map: the strong edge
\* points, the trace from every marked pixel in scan order, and the
\* remaining unvisited edge pixels with a neighbour in finalEdges
connected(edges, width, height) ==
    With({idx \in 0..(Len(edges) - 1) : strong(edges, width, height, idx)}, LAMBDA strongPoints :
        With(LET T[k \in 0..Len(edges)] ==
                     IF k = 0
                     THEN [stack |-> <<>>, finalEdges |-> strongPoints,
                           visited |-> strongPoints]
                     ELSE With(T[k - 1], LAMBDA s :
                              IF (k - 1) \in s.finalEdges /\ (k - 1) \in s.visited
                              THEN traceEdge(edges, width, height,
                                             [s EXCEPT !.stack = <<k - 1>>])
                              ELSE s)
             IN T[Len(edges)], LAMBDA traces :
            LET R[k \in 0..Len(edges)] ==
                    IF k = 0 THEN traces.finalEdges
                    ELSE With(R[k - 1], LAMBDA finalEdges :
                             IF /\ edges[k] = 1
                                /\ (k - 1) \notin traces.visited
                                /\ \E j \in 1..8 :
                                      edgeNeighbour(width, height, k - 1, j) \in finalEdges
                             THEN finalEdges \cup {k - 1}
                             ELSE finalEdges)
            IN [p \in 1..Len(edges) |-> IF (p - 1) \in R[Len(edges)] THEN 1 ELSE 0] \o <<>>))

\* the edge map that enters the hysteresis: the thresholded gradient,
\* thinned if requested
extracted(gradientData, threshold, thinning) ==
    With([p \in 1..Len(gradientData.data) |->
             IF gradientData.data[p] >= threshold THEN 1 ELSE 0] \o <<>>, LAMBDA edges :
        IF thinning
        THEN applyEdgeThinning(edges, gradientData.width, gradientData.height)
        ELSE edges)

\* applyEdgeExtraction(gradientData, threshold, thinning): finalEdges
applyEdgeExtraction(gradientData, threshold, thinning) ==
    connected(extracted(gradientData, threshold, thinning),
              gradientData.width, gradientData.height)

\* a call of applyEdgeExtraction on the gradient magnitude
ApplyEdgeExtraction ==
    /\ \E thinning \in BOOLEAN :
          /\ input' = [kind |-> "applyEdgeExtraction", canvas |-> canvas,
                       threshold |-> EdgeThreshold, thinning |-> thinning]
          /\ \E r \in {applyEdgeExtraction(canvas, EdgeThreshold, thinning)} :
                output' = [kind |-> "edges", finalEdges |-> r]
    /\ op' = "applyEdgeExtraction"
    /\ UNCHANGED <<canvas, sceneWalls, run, app>>

\* the gradient magnitude: every pixel is just below or exactly at the
\* threshold
InitEdges ==
    /\ sceneWalls = <<>>
    /\ \E w \in 1..MaxEdgeWidth, h \in 1..MaxEdgeHeight :
          canvas \in canvasesOf(w, h, {EdgeThreshold - 1, EdgeThreshold})
    /\ op = "none"
    /\ input = NoInput
    /\ output = NoOutput
    /\ run = NoRun
    /\ app = NoApp

NextEdges == ApplyEdgeExtraction

SpecEdges == InitEdges /\ [][NextEdges]_vars

(***************************************************************************)
(* Properties of the connectivity pass                                     *)
(***************************************************************************)

\* the edge map the connectivity pass of the last call was given
passEdges == extracted(input.canvas, input.threshold, input.thinning)

\* the edge pixels of the map
edgePixels(edges) == {q \in 0..(Len(edges) - 1) : edges[q + 1] = 1}

\* the 8-connected component of the pixels that holds the pixels of set
RECURSIVE edgeComponent(_, _, _)
edgeComponent(pixels, width, set) ==
    LET next == set \cup {q \in pixels : \E r \in set : touching(width, q, r)}
    IN IF next = set THEN set ELSE edgeComponent(pixels, width, next)

\* the pixel s has two or more of the pixels among its 8 neighbours
hasTwoEdgeNeighbours(pixels, width, s) ==
    Cardinality({q \in pixels : touching(width, q, s)}) >= 2

\* the pixels of finalEdges
accepted == {q \in 0..(Len(output.finalEdges) - 1) : output.finalEdges[q + 1] = 1}

\* C20: the connectivity pass accepts exactly the pixels of its edge map
\* (thresholded, thinned if requested) whose 8-connected component holds a
\* strong pixel, one with two or more edge pixels among its 8 neighbours;
\* so every edge pixel 8-adjacent to an accepted pixel is accepted, and the
\* edge pixels in components of one or two pixels are dropped.
C20_AcceptsComponentsWithStrongPixel ==
    op = "applyEdgeExtraction" =>
        With(edgePixels(passEdges), LAMBDA pixels :
        With(accepted, LAMBDA final :
            /\ final =
                  {p \in pixels :
                      \E s \in edgeComponent(pixels, input.canvas.width, {p}) :
                          hasTwoEdgeNeighbours(pixels, input.canvas.width, s)}
            /\ \A p \in pixels :
                  (\E q \in final : touching(input.canvas.width, p, q)) => p \in final
            /\ \A p \in pixels :
                  Cardinality(edgeComponent(pixels, input.canvas.width, {p})) <= 2
                  => p \notin final))

\* a 4 x 3 gradient was extracted with thinning, which cleared the pixel
\* (1, 1); the three edge pixels of column 0 were accepted and the two edge
\* pixels of column 3 were dropped
C20_Witness ==
    /\ op = "applyEdgeExtraction"
    /\ input.thinning
    /\ input.canvas.width = 4 /\ input.canvas.height = 3
    /\ input.canvas.data[6] >= input.threshold
    /\ passEdges[6] = 0
    /\ accepted = {0, 4, 8}
    /\ edgePixels(passEdges) = {0, 4, 8, 3, 7}

(***************************************************************************)
(* Edge thinning alone: applyEdgeThinning (kovalevskiy.mjs) on an edge map *)
(* [width, height, data] of 0 and 1                                        *)
(***************************************************************************)

\* the largest edge map given to applyEdgeThinning
MaxThinWidth == 4

MaxThinHeight == 4

\* the largest number of edge pixels in the map
MaxThinPixels == 6

\* a call of applyEdgeThinning on the edge map
ApplyEdgeThinning ==
    /\ input' = [kind |-> "applyEdgeThinning", canvas |-> canvas]
    /\ \E r \in {applyEdgeThinning(canvas.data, canvas.width, canvas.height)} :
          output' = [kind |-> "edges", result |-> r]
    /\ op' = "applyEdgeThinning"
    /\ UNCHANGED <<canvas, sceneWalls, run, app>>

InitThinning ==
    /\ sceneWalls = <<>>
    /\ \E w \in 1..MaxThinWidth, h \in 1..MaxThinHeight :
          canvas \in {cv \in canvasesOf(w, h, {0, 1}) :
                         Cardinality({p \in 1..(w * h) : cv.data[p] = 1}) <= MaxThinPixels}
    /\ op = "none"
    /\ input = NoInput
    /\ output = NoOutput
    /\ run = NoRun
    /\ app = NoApp

NextThinning == ApplyEdgeThinning

SpecThinning == InitThinning /\ [][NextThinning]_vars

(***************************************************************************)
(* Properties of the thinning                                              *)
(***************************************************************************)

\* the pixel p lies on the border of an image of the given size
onBorder(width, height, p) ==
    \/ p % width = 0 \/ p % width = width - 1
    \/ p \div width = 0 \/ p \div width = height - 1

\* the thinning adds no pixel and removes no pixel on the image border
ThinningOnlyRemovesInside ==
    op = "applyEdgeThinning" =>
        \A p \in 0..(pixelCount(input.canvas) - 1) :
            /\ output.result[p + 1] = 1 => input.canvas.data[p + 1] = 1
            /\ (input.canvas.data[p + 1] = 1
                  /\ onBorder(input.canvas.width, input.canvas.height, p))
               => output.result[p + 1] = 1

\* C21: the thinning only removes edge pixels, none of them on the image
\* border, and preserves 8-connectivity: of every 8-connected component of
\* edge pixels some pixel is kept, and the kept pixels of one component lie
\* in one 8-connected component of the result.
C21_ThinningPreservesConnectivity ==
    op = "applyEdgeThinning" =>
        With(edgePixels(input.canvas.data), LAMBDA before :
        With(edgePixels(output.result), LAMBDA after :
            /\ ThinningOnlyRemovesInside
            /\ \A p \in before :
                  With(edgeComponent(before, input.canvas.width, {p}) \cap after, LAMBDA kept :
                      /\ kept # {}
                      /\ \A q \in kept :
                            kept \subseteq edgeComponent(after, input.canvas.width, {q}))))

\* the thinning never splits a component: the kept pixels of one component
\* lie in one component of the result
ThinningNeverSplits ==
    op = "applyEdgeThinning" =>
        With(edgePixels(input.canvas.data), LAMBDA before :
        With(edgePixels(output.result), LAMBDA after :
            \A p \in before :
                With(edgeComponent(before, input.canvas.width, {p}) \cap after, LAMBDA kept :
                    \A q \in kept :
                        kept \subseteq edgeComponent(after, input.canvas.width, {q}))))

(***************************************************************************)
(* Hysteresis alone: applyHysteresis (canny.mjs) on suppressed magnitudes  *)
(* [width, height, data]                                                   *)
(***************************************************************************)

\* the largest image of suppressed magnitudes given to applyHysteresis
MaxHysteresisWidth == 3

MaxHysteresisHeight == 3

\* a pair with lowThreshold = highThreshold beside the pairs of CannyOptions
HysteresisOptions ==
    CannyOptions \cup {[lowThreshold |-> HighThreshold, highThreshold |-> HighThreshold]}

\* a call of applyHysteresis on the suppressed magnitudes
ApplyHysteresis ==
    /\ \E options \in HysteresisOptions :
          /\ input' = [kind |-> "applyHysteresis", canvas |-> canvas, options |-> options]
          /\ \E r \in {applyHysteresis(canvas.data, canvas.width,
                                       options.lowThreshold, options.highThreshold)} :
                output' = [kind |-> "edges", edges |-> r]
    /\ op' = "applyHysteresis"
    /\ UNCHANGED <<canvas, sceneWalls, run, app>>

\* the suppressed magnitudes: just below the default low threshold, at it,
\* or at the default high threshold
InitHysteresis ==
    /\ sceneWalls = <<>>
    /\ \E w \in 1..MaxHysteresisWidth, h \in 1..MaxHysteresisHeight :
          canvas \in canvasesOf(w, h, {LowThreshold - 1, LowThreshold, HighThreshold})
    /\ op = "none"
    /\ input = NoInput
    /\ output = NoOutput
    /\ run = NoRun
    /\ app = NoApp

NextHysteresis == ApplyHysteresis

SpecHysteresis == InitHysteresis /\ [][NextHysteresis]_vars

(***************************************************************************)
(* Properties of the hysteresis                                            *)
(***************************************************************************)

\* the pixels of the set, which all reach lowThreshold, and the pixels
\* joined to one of them by a chain of 8-adjacent pixels that all reach
\* lowThreshold
RECURSIVE joined(_, _, _, _)
joined(data, width, lowThreshold, set) ==
    LET next == set \cup {q \in 0..(Len(data) - 1) :
                             /\ data[q + 1] >= lowThreshold
                             /\ \E r \in set : touching(width, q, r)}
    IN IF next = set THEN set ELSE joined(data, width, lowThreshold, next)

\* C22: with lowThreshold <= highThreshold a pixel of the output is 255 if
\* and only if its magnitude is >= highThreshold, or it is >= lowThreshold
\* and joined to a pixel >= highThreshold by a chain of 8-adjacent pixels
\* all >= lowThreshold; every other pixel is 0.
C22_EdgeIffStrongOrJoined ==
    (op = "applyHysteresis" /\ input.options.lowThreshold <= input.options.highThreshold) =>
        With(joined(input.canvas.data, input.canvas.width, input.options.lowThreshold,
                    {q \in 0..(pixelCount(input.canvas) - 1) :
                        input.canvas.data[q + 1] >= input.options.highThreshold}),
             LAMBDA edge :
                \A p \in 0..(pixelCount(input.canvas) - 1) :
                    output.edges[p + 1] = IF p \in edge THEN 255 ELSE 0)

\* a 3 x 3 image with one strong pixel in a corner: the weak pixel in the
\* opposite corner is joined to it through the weak centre and is an edge,
\* the weak pixel (2, 0) is joined as well, the pixels below the low
\* threshold are 0
C22_Witness ==
    /\ op = "applyHysteresis"
    /\ input.options = [lowThreshold |-> LowThreshold, highThreshold |-> HighThreshold]
    /\ input.canvas.width = 3 /\ input.canvas.height = 3
    /\ input.canvas.data =
          <<HighThreshold, LowThreshold - 1, LowThreshold,
            LowThreshold - 1, LowThreshold, LowThreshold - 1,
            LowThreshold - 1, LowThreshold - 1, LowThreshold>>
    /\ output.edges = <<255, 0, 255, 0, 255, 0, 0, 0, 255>>

(***************************************************************************)
(* The wall merger on scenes of several plain walls                        *)
(***************************************************************************)

\* the most plain walls in the scene given to combineSceneWalls
MaxSceneWalls == 3

\* a wall the user drew by hand with the default attributes
drawnWall(id, c) == [createdWall(id, c) EXCEPT !.auto = FALSE]

\* a scene of up to MaxSceneWalls hand-drawn plain walls
InitComponents ==
    /\ \E n \in 0..MaxSceneWalls :
          \E cs \in [1..n -> Segments] :
              sceneWalls = [i \in 1..n |-> drawnWall(i, cs[i])]
    /\ canvas = NoCanvas
    /\ op = "none"
    /\ input = NoInput
    /\ output = NoOutput
    /\ run = NoRun
    /\ app = NoApp

NextComponents == combineSceneWalls

SpecComponents == InitComponents /\ [][NextComponents]_vars

(***************************************************************************)
(* Properties of the components of the wall merger                         *)
(***************************************************************************)

\* the walls of cs (by position) linked to a wall of set by a common
\* endpoint key, and so on
RECURSIVE linked(_, _)
linked(cs, set) ==
    LET next == set \cup {i \in 1..Len(cs) : \E j \in set : SharesKey(cs[i], cs[j])}
    IN IF next = set THEN set ELSE linked(cs, next)

\* the connected components of the endpoint-to-segment adjacency
components(cs) == {linked(cs, {i}) : i \in 1..Len(cs)}

\* C23: combineSceneWalls partitions the plain walls into the connected
\* components of the endpoint-to-segment adjacency: every plain wall is in
\* exactly one set, there are as many created segments as components, and
\* the segment created for a set is (min x, min y, max x, max y) over the
\* endpoints of its members.
C23_OneSegmentPerComponent ==
    op = "combineSceneWalls" =>
        With(plainOf(input.walls), LAMBDA plain :
        With(wallSets(plain), LAMBDA sets :
        With(coordsOf(plainOf(sceneWalls)), LAMBDA created :
            /\ \A i \in 1..Len(plain) :
                  Cardinality({n \in 1..Len(sets) : i \in sets[n]}) = 1
            /\ Range(sets) = components(coordsOf(plain))
            /\ Len(created) = Cardinality(components(coordsOf(plain)))
            /\ Len(created) = Len(sets)
            /\ \A n \in 1..Len(sets) :
                  created[n] = BoxOf({plain[i].c : i \in sets[n]}))))

\* three walls in a chain, the first and the last without a common key,
\* beside nothing else: one component, one created segment over all three
C23_Witness ==
    /\ op = "combineSceneWalls"
    /\ Len(input.walls) = 3
    /\ ~SharesKey(input.walls[1].c, input.walls[3].c)
    /\ SharesKey(input.walls[1].c, input.walls[2].c)
    /\ SharesKey(input.walls[2].c, input.walls[3].c)
    /\ input.walls[1].c # input.walls[3].c
    /\ Len(sceneWalls) = 1
    /\ sceneWalls[1].c = BoxOf({input.walls[i].c : i \in 1..3})

(***************************************************************************)
(* Properties of the sequence identifyWalls returns                        *)
(***************************************************************************)

\* the segment s is the top edge or the left edge, of length grid, of the
\* tile of the canvas that has its origin where s starts
edgeOfTile(cv, grid, s) ==
    /\ s[1] % grid = 0 /\ s[1] >= 0 /\ s[1] < cv.width
    /\ s[2] % grid = 0 /\ s[2] >= 0 /\ s[2] < cv.height
    /\ \/ s[3] = s[1] + grid /\ s[4] = s[2]
       \/ s[3] = s[1] /\ s[4] = s[2] + grid

\* some segment stands at two places of the sequence
hasDuplicate(walls) == \E i, j \in 1..Len(walls) : i # j /\ walls[i] = walls[j]

\* the number of tiles of the canvas for the cell size
tileCount(cv, grid) == Len(origins(cv.width, grid)) * Len(origins(cv.height, grid))

\* C24 as stated: the segments are axis-aligned, of length exactly cellSize
\* and start at a tile origin, and adjacent tiles emit duplicates: where
\* every one of two or more tiles emits both of its segments, some segment
\* occurs more than once.
C24_AdjacentTilesEmitDuplicates ==
    op = "identifyWalls" =>
        /\ \A k \in 1..Len(output.walls) :
              edgeOfTile(input.canvas, input.grid, output.walls[k])
        /\ (tileCount(input.canvas, input.grid) >= 2
              /\ Len(output.walls) = 2 * tileCount(input.canvas, input.grid))
           => hasDuplicate(output.walls)

\* C24: identifyWalls returns a flat sequence of axis-aligned segments of
\* length exactly cellSize, each starting at a tile origin; no segment
\* occurs more than once, since a tile emits only its own top edge and its
\* own left edge.
C24_TileEdgesWithoutDuplicates ==
    op = "identifyWalls" =>
        /\ \A k \in 1..Len(output.walls) :
              edgeOfTile(input.canvas, input.grid, output.walls[k])
        /\ ~hasDuplicate(output.walls)

\* a canvas of two or more tiles, every tile of which emitted both of its
\* segments
C24_Witness ==
    /\ op = "identifyWalls"
    /\ tileCount(input.canvas, input.grid) >= 4
    /\ Len(output.walls) = 2 * tileCount(input.canvas, input.grid)

(***************************************************************************)
(* The median filter on canvases of three colours                          *)
(***************************************************************************)

\* the largest canvas given to applyMedianFilter
MaxMedianWidth == 3

MaxMedianHeight == 2

\* opaque red, green and blue, of luminance 76.245, 149.685 and 29.07: the
\* median of each channel taken alone can be a colour the image does not have
MedianColours == {<<255, 0, 0, 255>>, <<0, 255, 0, 255>>, <<0, 0, 255, 255>>}

InitMedian ==
    /\ sceneWalls = <<>>
    /\ \E w \in 1..MaxMedianWidth, h \in 1..MaxMedianHeight :
          canvas \in canvasesOf(w, h, MedianColours)
    /\ op = "none"
    /\ input = NoInput
    /\ output = NoOutput
    /\ run = NoRun
    /\ app = NoApp

NextMedian == ApplyMedianFilter

SpecMedian == InitMedian /\ [][NextMedian]_vars

(***************************************************************************)
(* Properties of the median filter                                         *)
(***************************************************************************)

\* the pixels of the input within half a kernel of (x, y), the coordinates
\* clamped to the canvas, one for every kernel position
neighbourhood(cv, x, y, half) ==
    [k \in ((-half)..half) \X ((-half)..half) |->
        cv.data[Max2(0, Min2(cv.height - 1, y + k[2])) * cv.width
                + Max2(0, Min2(cv.width - 1, x + k[1])) + 1]]

\* px is a pixel of the neighbourhood, and fewer than half of the kernel
\* positions hold a darker pixel, fewer than half a brighter one
isMedianOf(px, around) ==
    /\ \E k \in DOMAIN around : around[k] = px
    /\ 2 * Cardinality({k \in DOMAIN around : luminance(around[k]) < luminance(px)})
          < Cardinality(DOMAIN around)
    /\ 2 * Cardinality({k \in DOMAIN around : luminance(around[k]) > luminance(px)})
          < Cardinality(DOMAIN around)

\* C25: every output pixel of the median filter is the entire RGBA tuple of
\* the median-luminance pixel of its border-clamped kernelSize x kernelSize
\* neighbourhood in the unmodified input, so the output has no RGBA tuple
\* the input did not have; an even kernelSize behaves exactly like
\* kernelSize + 1.
C25_MedianTupleOfNeighbourhood ==
    (op = "applyMedianFilter" /\ input.kernelSize >= 0) =>
        LET size == IF input.kernelSize % 2 = 0 THEN input.kernelSize + 1
                    ELSE input.kernelSize
        IN /\ output = NoOutput
           /\ canvas.width = input.canvas.width /\ canvas.height = input.canvas.height
           /\ \A p \in 0..(pixelCount(input.canvas) - 1) :
                 isMedianOf(canvas.data[p + 1],
                            neighbourhood(input.canvas, p % input.canvas.width,
                                          p \div input.canvas.width, (size - 1) \div 2))
           /\ Range(canvas.data) \subseteq Range(input.canvas.data)
           /\ input.kernelSize % 2 = 0
                 => canvas = medianFiltered(input.canvas, input.kernelSize + 1)

\* a 3 x 2 canvas with all three colours went through the filter with the
\* even kernelSize 2 and came out changed
C25_Witness ==
    /\ op = "applyMedianFilter" /\ input.kernelSize = 2
    /\ input.canvas.width = 3 /\ input.canvas.height = 2
    /\ Range(input.canvas.data) = MedianColours
    /\ canvas # input.canvas

(***************************************************************************)
(* Inside / outside separation: separateInside (part_004)                  *)
(***************************************************************************)

\* the largest canvas given to separateInside
MaxInsideWidth == 3

MaxInsideHeight == 3

InsideColours == {<<0, 0, 0, 255>>, <<255, 255, 255, 255>>, <<255, 0, 0, 255>>}

\* the thresholds in tenths: the default 0.4, and 0.5
InsideThresholds == {4, 5}

\* edgePixels: the colours counted along the top and bottom edges for every
\* x, then along the left and right edges for 0 < y < height - 1
edgeColours(cv) ==
    LET rgb(idx) == SubSeq(cv.data[idx + 1], 1, 3)
        rows == [n \in 1..(2 * cv.width) |->
                    IF n % 2 = 1 THEN rgb((n - 1) \div 2)
                    ELSE rgb(((n - 1) \div 2) + (cv.height - 1) * cv.width)]
        columns == [n \in 1..(2 * Max2(cv.height - 2, 0)) |->
                       IF n % 2 = 1 THEN rgb(((n + 1) \div 2) * cv.width)
                       ELSE rgb((cv.width - 1) + (n \div 2) * cv.width)]
    IN rows \o columns

\* count / totalEdgePixels > threshold, the threshold in tenths (a count
\* over a total of 0 is Infinity)
outside(count, totalEdgePixels, threshold) == count * 10 > threshold * totalEdgePixels

\* the canvas after separateInside: black for the pixels of the outside
\* colours, white for the others, all opaque
separateInside(cv, threshold) ==
    With(edgeColours(cv) \o <<>>, LAMBDA counted :
        LET totalEdgePixels == 2 * cv.width + 2 * cv.height - 4
            outsideColors ==
                {colour \in Range(counted) :
                    outside(Cardinality({n \in 1..Len(counted) : counted[n] = colour}),
                            totalEdgePixels, threshold)}
        IN [cv EXCEPT !.data =
               [p \in 1..pixelCount(cv) |->
                   IF SubSeq(cv.data[p], 1, 3) \in outsideColors
                   THEN <<0, 0, 0, 255>>
                   ELSE <<255, 255, 255, 255>>] \o <<>>])

\* a call of separateInside on the canvas
SeparateInside ==
    /\ \E threshold \in InsideThresholds :
          /\ input' = [kind |-> "separateInside", canvas |-> canvas, threshold |-> threshold]
          /\ \E r \in {separateInside(canvas, threshold)} : canvas' = r
    /\ output' = NoOutput
    /\ op' = "separateInside"
    /\ UNCHANGED <<sceneWalls, run, app>>

InitInside ==
    /\ sceneWalls = <<>>
    /\ \E w \in 1..MaxInsideWidth, h \in 1..MaxInsideHeight :
          canvas \in canvasesOf(w, h, InsideColours)
    /\ op = "none"
    /\ input = NoInput
    /\ output = NoOutput
    /\ run = NoRun
    /\ app = NoApp

NextInside == SeparateInside

SpecInside == InitInside /\ [][NextInside]_vars

(***************************************************************************)
(* Properties of the separation                                            *)
(***************************************************************************)

\* the pixel p of the result is black if its colour in the input occurs on
\* more than the fraction of the 2 * width + 2 * height - 4 border pixels,
\* and white otherwise
repaintedByBorderShare(p) ==
    LET cv == input.canvas
        share == Cardinality({q \in 0..(pixelCount(cv) - 1) :
                                 /\ onBorder(cv.width, cv.height, q)
                                 /\ SubSeq(cv.data[q + 1], 1, 3) = SubSeq(cv.data[p + 1], 1, 3)})
    IN canvas.data[p + 1] =
          IF share * 10 > input.threshold * (2 * cv.width + 2 * cv.height - 4)
          THEN <<0, 0, 0, 255>>
          ELSE <<255, 255, 255, 255>>

\* C26: separateInside repaints a pixel black if and only if its RGB colour
\* occurs on strictly more than thresholdFraction of the 2 * width +
\* 2 * height - 4 border pixels, and white otherwise.
C26_BlackIffColourOnBorderShare ==
    op = "separateInside" =>
        \A p \in 0..(pixelCount(input.canvas) - 1) : repaintedByBorderShare(p)

\* the same on images at least two pixels wide and two pixels high
InsideOfProperImages ==
    (op = "separateInside" /\ input.canvas.width >= 2 /\ input.canvas.height >= 2) =>
        \A p \in 0..(pixelCount(input.canvas) - 1) : repaintedByBorderShare(p)

(***************************************************************************)
(* Termination of the k-means segmentation                                 *)
(*                                                                         *)
(* kMeansImageSegmentation is a synchronous function: once it is called,   *)
(* every turn of its loop and its last step are taken without waiting for  *)
(* anything, hence the weak fairness of both actions.                      *)
(***************************************************************************)
\* the most pixels of the canvas in the runs checked for termination
MaxFairPixels == 3

InitFairKMeans ==
    /\ sceneWalls = <<>>
    /\ \E w \in 1..MaxFairPixels :
          canvas \in canvasesOf(w, 1, KMeansColours)
    /\ op = "none"
    /\ input = NoInput
    /\ output = NoOutput
    /\ run = NoRun
    /\ app = NoApp

FairKMeans ==
    InitFairKMeans /\ [][NextKMeans]_vars
        /\ WF_vars(KMeansIterate) /\ WF_vars(KMeansFinish)

\* the step that leaves the loop writes, for every pixel, the rounded
\* centroid of the cluster the pixel is assigned to, and keeps its alpha
RepaintsWithCurrentCentroids ==
    (run.kind = "kMeans" /\ run' = NoRun) =>
        /\ output'.iterations = run.iterations
        /\ output'.converged = run.converged
        /\ \A i \in 1..pixelCount(canvas) :
              LET c == run.centroids[run.clusters[i] + 1]
              IN /\ \A t \in 1..3 :
                       /\ 2 * c.count * canvas'.data[i][t] <= 2 * c.sum[t] + c.count
                       /\ 2 * c.count * (canvas'.data[i][t] + 1) > 2 * c.sum[t] + c.count
                 /\ canvas'.data[i][4] = canvas.data[i][4]

\* C27: kMeansImageSegmentation terminates on a non-empty image for every
\* k >= 1, also for k larger than the number of pixels or of distinct
\* colours: the main loop runs at most maxIterations iterations, the call
\* ends, and leaving the loop at maxIterations without convergence still
\* repaints the image with the current centroids.
C27_KMeansTerminates ==
    /\ [](run.kind = "kMeans" => run.iterations <= run.maxIterations)
    /\ [](output.kind = "segmented" =>
             /\ output.iterations <= input.maxIterations
             /\ output.converged \/ output.iterations = input.maxIterations)
    /\ [][RepaintsWithCurrentCentroids]_vars
    /\ (run.kind = "kMeans") ~> (run = NoRun /\ output.kind = "segmented")

\* a canvas of one pixel was segmented with k = 2, more clusters than
\* pixels, and the call ended at maxIterations = 1 without convergence and
\* with the pixel repainted
C27_Witness ==
    /\ op = "kMeansImageSegmentation"
    /\ run = NoRun
    /\ pixelCount(canvas) = 1
    /\ input.k = 2
    /\ input.maxIterations = 1
    /\ output.kind = "segmented"
    /\ ~output.converged
    /\ output.iterations = 1

(***************************************************************************)
(* The wall merger applied again to its own result                         *)
(***************************************************************************)

\* the largest whole x and y of an endpoint in the scenes merged twice
MaxWholeX == 3

MaxWholeY == 1

\* the axis-aligned segments with whole coordinates (whole n is 2 * n in
\* half units); a segment of no length counts as axis-aligned
WholeSegments ==
    {c \in {<<2 * x1, 2 * y1, 2 * x2, 2 * y2>> :
                x1 \in 0..MaxWholeX, y1 \in 0..MaxWholeY,
                x2 \in 0..MaxWholeX, y2 \in 0..MaxWholeY} :
        c[1] = c[3] \/ c[2] = c[4]}

\* a scene of up to MaxSceneWalls plain walls on axis-aligned whole segments
InitWhole ==
    /\ \E n \in 0..MaxSceneWalls :
          \E cs \in [1..n -> WholeSegments] :
              sceneWalls = [i \in 1..n |-> drawnWall(i, cs[i])]
    /\ canvas = NoCanvas
    /\ op = "none"
    /\ input = NoInput
    /\ output = NoOutput
    /\ run = NoRun
    /\ app = NoApp

NextWhole == combineSceneWalls

SpecWhole == InitWhole /\ [][NextWhole]_vars

\* no two walls of the scene have an endpoint key in common
keysApart(scene) ==
    \A i, j \in 1..Len(scene) : i # j => ~SharesKey(scene[i].c, scene[j].c)

\* a pass of combineSceneWalls over the result of a pass before it
SecondPassKeepsSegments ==
    op = "combineSceneWalls" =>
        /\ Range(coordsOf(sceneWalls')) = Range(coordsOf(sceneWalls))
        /\ Len(sceneWalls') = Len(sceneWalls)

\* C28: on axis-aligned segments with whole coordinates, no two segments left
\* by one pass of combineSceneWalls share a rounded endpoint in the same
\* direction bucket, and a second pass yields the same set of segments.
C28_MergeIsIdempotent ==
    /\ [](op = "combineSceneWalls" => keysApart(sceneWalls))
    /\ [][SecondPassKeepsSegments]_vars

\* a second pass has run over the two segments that a first pass left of
\* three walls, two of which it had merged
C28_Witness ==
    /\ op = "combineSceneWalls"
    /\ Len(input.walls) = 2
    /\ \A i \in 1..2 : input.walls[i].auto
    /\ Len(sceneWalls) = 2
    /\ \E i, j \in 1..2 :
          /\ i # j
          /\ input.walls[i].c = <<0, 0, 2 * MaxWholeX, 0>>
          /\ input.walls[j].c[2] = 0
          /\ input.walls[j].c[4] = 0
          /\ input.walls[j].c[1] > 0
          /\ input.walls[j].c[3] > input.walls[j].c[1]
          /\ input.walls[j].c[3] < 2 * MaxWholeX

(***************************************************************************)
(* Generations of the window that overlap                                  *)
(***************************************************************************)

\* the call of generate the window started last
latestGeneration == Len(run)

\* C29: under any interleaving of generate calls with their completions, the
\* wall list held by the window, whenever it is not null, is the result of
\* the generation started last, and apply never commits the walls of an
\* older run or of a run that completed while a newer one is in flight.
C29_WallsOfLatestGeneration ==
    /\ (app # NoApp /\ app.walls # <<>>) => app.walls[1].run = latestGeneration
    /\ (op = "apply" /\ input.walls # <<>>) =>
           /\ input.walls[1].run = latestGeneration
           /\ run[latestGeneration].status = "resolved"

\* while no second generation was started, the wall list is the result of
\* the only one
SingleGenerationWalls ==
    (app # NoApp /\ app.walls # <<>> /\ Len(run) = 1) => app.walls[1].run = 1

(***************************************************************************)
(* The window and the Minimize Walls tool on one scene                     *)
(***************************************************************************)

\* generate (on the first render and by the button), its completion, apply
\* and Minimize Walls
NextTools ==
    \/ OpenWindow
    \/ Generate
    \/ ImageLoads
    \/ Apply
    \/ combineSceneWalls

SpecTools == InitApp /\ [][NextTools]_vars

\* the segment of the wall that the user drew by hand in the scene the
\* window is opened on
handDrawnSegment == <<0, 0, 0, 1>>

\* the walls of the scene that are the hand-drawn wall or a wall over it
overHandDrawn(scene) == SelectIdx(scene, LAMBDA w : Covers(w.c, handDrawnSegment))

\* C30: after any sequence of generate, apply and Minimize Walls, the
\* auto-detect flag is carried only by walls that come from auto-detection:
\* the wall drawn by hand, or the wall that replaced it in a merge, is in the
\* scene and does not carry the flag, so that apply does not remove it.
C30_FlagOnlyOnDetectedWalls ==
    /\ overHandDrawn(sceneWalls) # <<>>
    /\ \A w \in Range(overHandDrawn(sceneWalls)) : ~w.auto

\* the wall drawn by hand, or a wall over it, is in the scene
HandDrawnWallStays == overHandDrawn(sceneWalls) # <<>>

\* an apply that finds the hand-drawn wall without the flag keeps it
ApplyKeepsUnflagged ==
    (op = "apply"
        /\ \E w \in Range(overHandDrawn(input.sceneWalls)) : ~w.auto)
        => \E w \in Range(overHandDrawn(sceneWalls)) : ~w.auto
====
